---- MODULE Spec2Model ----
(***************************************************************************)
(* Progression accounting of the habit tracker: the five category update   *)
(* handlers of routes/habits.js, the XP helpers of utils/xp.js and the     *)
(* users / daily_logs tables of db/index.js, for one user.                 *)
(*                                                                         *)
(* Time is counted in whole hours since midnight of day 0; the calendar    *)
(* date of an instant is the number of whole days it contains.  Clock      *)
(* readings "HH:MM" are pairs <<h, m>>.  sleep_hours, a number with one    *)
(* decimal in the code, is kept in tenths of an hour.  The columns id,     *)
(* user_id, created_at, updated_at, vegetables_count, mood and notes of    *)
(* daily_logs take no part in any rule and are left out of the row.        *)
(***************************************************************************)
EXTENDS Integers, Sequences, FiniteSets, TLC

VARIABLES now, users, daily_logs, habits_config, resp, rawToday, paidCount,
          lastReq, inflight, base, nreq, badges, rowsInserted, judged, call,
          sessions, teams, team_members

vars == <<now, users, daily_logs, habits_config, resp, rawToday, paidCount,
          lastReq, inflight, base, nreq, badges, rowsInserted, judged, call,
          sessions, teams, team_members>>

\* the tables of the sessions and of the teams
accountVars == <<sessions, teams, team_members>>

dbVars == <<users, daily_logs>>

----------------------------------------------------------------------------
(* Bounds of the model *)

\* last instant (in hours) the clock may reach
MaxNow == 24
\* the last date of the runs in which whole days pass (dates count from 0)
MaxDay == 2
\* largest number of raw awards counted per (date, award)
MaxPaid == 2
\* number of requests served in a run
MaxRequests == 3
\* how far the arguments of capDailyXp go beyond 0 and beyond the cap
MaxOver == 10
\* the last date of the runs that follow the streak evaluations
MaxStreakDay == 4
\* the last hour of the runs that follow one day hour by hour
MaxClock == 26

----------------------------------------------------------------------------
(* Program constants *)

NULL == -1
NoTime == <<>>

DAILY_XP_CAP == 150
MaxLevel == 100
STEP_BONUS_INCREMENT == 500
STEP_BONUS_XP == 5
\* TWO_HOURS_MS, in hours
TWO_HOURS == 2
MOVEMENT_XP == 15
HYDRATION_GLASS_XP == 5
HYDRATION_GOAL_BONUS_XP == 20
SLEEP_LOG_XP == 5
SLEEP_GOAL_BONUS_XP == 15
\* SLEEP_GOAL_HOURS = 7, in tenths of an hour
SLEEP_GOAL_TENTHS == 70
HoursPerDay == 24
\* the clock starts one hour before the midnight that ends day 0
StartNow == HoursPerDay - 1

FoodItems == {"vegetables", "no_junk", "breakfast"}

FOOD_HABITS ==
  [vegetables |-> [xp |-> 10, col |-> "food_vegetables", xpCol |-> "food_veg_xp_awarded"],
   no_junk    |-> [xp |-> 10, col |-> "food_no_junk", xpCol |-> "food_nojunk_xp_awarded"],
   breakfast  |-> [xp |-> 5, col |-> "food_breakfast", xpCol |-> "food_breakfast_xp_awarded"]]

\* the one-shot award flags of a ledger row
OneShotFlags ==
  {"steps_goal_xp_awarded", "hydration_goal_xp_awarded",
   "sleep_xp_start_awarded", "sleep_xp_end_awarded", "sleep_goal_xp_awarded",
   "movement_xp_awarded",
   "food_veg_xp_awarded", "food_nojunk_xp_awarded", "food_breakfast_xp_awarded"}

----------------------------------------------------------------------------
(* utils/xp.js *)

Min(a, b) == IF a <= b THEN a ELSE b
Max(a, b) == IF a >= b THEN a ELSE b

\* A JS number too large for a 32-bit integer is kept as <<hi, lo>>, standing
\* for hi * Limb + lo with 0 <= lo < Limb.  All values of the level table are
\* integers far below 2^53, which JS numbers hold exactly.
Limb == 10^6
Wide(n) == <<n \div Limb, n % Limb>>
WideAdd(x, y) ==
  <<x[1] + y[1] + ((x[2] + y[2]) \div Limb), (x[2] + y[2]) % Limb>>
WideLeq(x, y) == x[1] < y[1] \/ (x[1] = y[1] /\ x[2] <= y[2])
WideLess(x, y) == x[1] < y[1] \/ (x[1] = y[1] /\ x[2] < y[2])

\* the product cut off instead of rounded: Math.floor(prevIncrement * 1.2)
RoundIncrement_CutsOff(prevIncrement) ==
  LET lo12 == prevIncrement[2] * 12
      hi12 == prevIncrement[1] * 12 + (lo12 \div Limb)
  IN <<hi12 \div 10, ((hi12 % 10) * Limb + (lo12 % Limb)) \div 10>>

\* Math.round(prevIncrement * 1.2): 12 * prevIncrement is even, so the product
\* is never halfway between two integers and rounds to
\* (12 * prevIncrement + 5) \div 10
RoundIncrement(prevIncrement) ==
  LET lo12 == prevIncrement[2] * 12 + 5
      hi12 == prevIncrement[1] * 12 + (lo12 \div Limb)
  IN <<hi12 \div 10, ((hi12 % 10) * Limb + (lo12 % Limb)) \div 10>>

\* one pass of the for loop of buildLevelThresholds on its variables;
\* thresholds[k] of the code is thresholds[k + 1] here
ThresholdPass(st) ==
  LET increment == RoundIncrement(st.prevIncrement) IN
  [thresholds |-> Append(st.thresholds,
                         WideAdd(st.thresholds[st.i], increment)),
   prevIncrement |-> increment,
   i |-> st.i + 1]

\* the for loop of buildLevelThresholds
RECURSIVE ThresholdLoop(_, _)
ThresholdLoop(st, maxLevel) ==
  IF st.i < maxLevel THEN ThresholdLoop(ThresholdPass(st), maxLevel) ELSE st

buildLevelThresholds(maxLevel) ==
  ThresholdLoop([thresholds |-> <<Wide(0), Wide(500), Wide(1200)>>,
                 prevIncrement |-> Wide(700), i |-> 3],
                maxLevel).thresholds

LEVEL_THRESHOLDS == buildLevelThresholds(MaxLevel)

\* the loop with a threshold counted as reached only when it is exceeded
RECURSIVE LevelLoop_Strict(_, _, _)
LevelLoop_Strict(xp, i, level) ==
  IF i < Len(LEVEL_THRESHOLDS) /\ WideLess(LEVEL_THRESHOLDS[i + 1], xp)
  THEN LevelLoop_Strict(xp, i + 1, i + 1)
  ELSE level

\* the for loop of getLevelForXp on the number xp
RECURSIVE LevelLoop(_, _, _)
LevelLoop(xp, i, level) ==
  IF i < Len(LEVEL_THRESHOLDS) /\ WideLeq(LEVEL_THRESHOLDS[i + 1], xp)
  THEN LevelLoop(xp, i + 1, i + 1)
  ELSE level

\* getLevelForXp on a number of any size
getLevelForXpOf(xp) == LevelLoop(xp, 1, 1)

\* getLevelForXp on an integer of the database
getLevelForXp(xp) == getLevelForXpOf(Wide(xp))

\* the cap without the guard for deltas that are not positive
capDailyXp_PassesNegative(currentDayXp, proposedDelta) ==
  Min(proposedDelta, Max(0, DAILY_XP_CAP - currentDayXp))

\* the cap applied to the delta alone, without what the day has earned
capDailyXp_IgnoresEarned(currentDayXp, proposedDelta) ==
  IF proposedDelta <= 0 THEN 0 ELSE Min(proposedDelta, DAILY_XP_CAP)

capDailyXp(currentDayXp, proposedDelta) ==
  IF proposedDelta <= 0 THEN 0
  ELSE Min(proposedDelta, Max(0, DAILY_XP_CAP - currentDayXp))

----------------------------------------------------------------------------
(* utils/date.js and the tables *)

getTodayForTimezone(t) == t \div HoursPerDay

today == getTodayForTimezone(now)

\* a freshly inserted daily_logs row: every column at its schema default
DefaultRow ==
  [steps |-> NULL, steps_manual |-> NULL, steps_google_fit |-> NULL,
   steps_goal_xp_awarded |-> 0, steps_last_bonus_at |-> NULL,
   hydration_glasses |-> NULL, hydration_xp_glasses |-> 0,
   hydration_goal_xp_awarded |-> 0,
   sleep_start |-> NoTime, sleep_end |-> NoTime, sleep_hours |-> NULL,
   sleep_xp_start_awarded |-> 0, sleep_xp_end_awarded |-> 0,
   sleep_goal_xp_awarded |-> 0,
   movement_done |-> 0, movement_xp_awarded |-> 0,
   food_vegetables |-> 0, food_no_junk |-> 0, food_breakfast |-> 0,
   food_veg_xp_awarded |-> 0, food_nojunk_xp_awarded |-> 0,
   food_breakfast_xp_awarded |-> 0,
   xp_earned |-> 0]

\* SELECT ... FROM daily_logs WHERE user_id = ? AND log_date = ?
HasRow(logs, d) == d \in DOMAIN logs

\* existing?.col ?? dflt, for the integer columns
Col(logs, d, col, dflt) ==
  IF HasRow(logs, d) /\ logs[d][col] # NULL THEN logs[d][col] ELSE dflt

\* existing?.col || null, for the "HH:MM" columns
TimeCol(logs, d, col) == IF HasRow(logs, d) THEN logs[d][col] ELSE NoTime

\* goalConfig?.col ?? dflt; habits_config holds at most one row of the user
Goal(cfg, col, dflt) == IF Len(cfg) = 0 THEN dflt ELSE cfg[1][col]

EmptyFields == [c \in {} |-> 0]
Opt(cond, col, val) == IF cond THEN col :> val ELSE EmptyFields

\* UPDATE daily_logs SET <fields>: the named columns change, the others stay
Merge(fields, row) ==
  [c \in DOMAIN row |-> IF c \in DOMAIN fields THEN fields[c] ELSE row[c]]

RECURSIVE SumOver(_, _)
SumOver(f, S) ==
  IF S = {} THEN 0
  ELSE LET x == CHOOSE y \in S : TRUE IN f[x] + SumOver(f, S \ {x})

\* the raw XP of an update: rawXpDelta, all awards of the update summed
RawOf(rule) == SumOver(rule.paid, DOMAIN rule.paid) + rule.extra

----------------------------------------------------------------------------
(* The rules of the five categories: from the row read for today (logs, d), *)
(* the goals and the request they give the columns to write (fields), the   *)
(* raw XP of every one-shot award (paid) and the raw XP that is not tied to *)
(* a one-shot flag (extra: glasses, step bonus).                            *)

\* the award paid whenever the routine is reported done
MovementRule_PaysWhenDone(logs, d, value) ==
  LET done == value = 1
      prevXpAwarded == Col(logs, d, "movement_xp_awarded", 0)
  IN [fields |-> ("movement_done" :> (IF done THEN 1 ELSE 0))
                 @@ ("movement_xp_awarded" :> (IF done THEN 1 ELSE prevXpAwarded)),
      paid |-> ("movement_xp_awarded" :> (IF done THEN MOVEMENT_XP ELSE 0)),
      extra |-> 0]

MovementRule(logs, d, value) ==
  LET done == value = 1
      prevXpAwarded == Col(logs, d, "movement_xp_awarded", 0)
      newXpAwarded == IF done /\ prevXpAwarded = 0 THEN 1 ELSE prevXpAwarded
      rawXpDelta == IF newXpAwarded = 1 /\ prevXpAwarded = 0 THEN MOVEMENT_XP ELSE 0
  IN [fields |-> ("movement_done" :> (IF done THEN 1 ELSE 0))
                 @@ ("movement_xp_awarded" :> newXpAwarded),
      paid |-> ("movement_xp_awarded" :> rawXpDelta),
      extra |-> 0]

\* every glass of the request paid, whatever has been paid before
HydrationRule_PaysEveryGlass(logs, d, cfg, glasses) ==
  LET hydrationGoal == Goal(cfg, "hydration_glasses", 8)
      prevXpGlasses == Col(logs, d, "hydration_xp_glasses", 0)
      newXpGlasses == Max(prevXpGlasses, glasses)
      glassXpDelta == glasses * HYDRATION_GLASS_XP
      prevGoalAwarded == Col(logs, d, "hydration_goal_xp_awarded", 0)
      goalMet == glasses >= hydrationGoal
      newGoalAwarded == IF goalMet /\ prevGoalAwarded = 0 THEN 1 ELSE prevGoalAwarded
      goalXpDelta == IF newGoalAwarded = 1 /\ prevGoalAwarded = 0
                     THEN HYDRATION_GOAL_BONUS_XP ELSE 0
  IN [fields |-> ("hydration_glasses" :> glasses)
                 @@ ("hydration_xp_glasses" :> newXpGlasses)
                 @@ ("hydration_goal_xp_awarded" :> newGoalAwarded),
      paid |-> ("hydration_goal_xp_awarded" :> goalXpDelta),
      extra |-> glassXpDelta]

\* the high-water mark overwritten by the glasses of the request
HydrationRule_MarkFollowsInput(logs, d, cfg, glasses) ==
  LET hydrationGoal == Goal(cfg, "hydration_glasses", 8)
      prevXpGlasses == Col(logs, d, "hydration_xp_glasses", 0)
      glassXpDelta == Max(0, glasses - prevXpGlasses) * HYDRATION_GLASS_XP
      prevGoalAwarded == Col(logs, d, "hydration_goal_xp_awarded", 0)
      newGoalAwarded == IF glasses >= hydrationGoal /\ prevGoalAwarded = 0
                        THEN 1 ELSE prevGoalAwarded
  IN [fields |-> ("hydration_glasses" :> glasses)
                 @@ ("hydration_xp_glasses" :> glasses)
                 @@ ("hydration_goal_xp_awarded" :> newGoalAwarded),
      paid |-> ("hydration_goal_xp_awarded" :>
                  (IF newGoalAwarded = 1 /\ prevGoalAwarded = 0
                   THEN HYDRATION_GOAL_BONUS_XP ELSE 0)),
      extra |-> glassXpDelta]

HydrationRule(logs, d, cfg, glasses) ==
  LET hydrationGoal == Goal(cfg, "hydration_glasses", 8)
      prevXpGlasses == Col(logs, d, "hydration_xp_glasses", 0)
      newXpGlasses == Max(prevXpGlasses, glasses)
      glassXpDelta == Max(0, newXpGlasses - prevXpGlasses) * HYDRATION_GLASS_XP
      prevGoalAwarded == Col(logs, d, "hydration_goal_xp_awarded", 0)
      goalMet == glasses >= hydrationGoal
      newGoalAwarded == IF goalMet /\ prevGoalAwarded = 0 THEN 1 ELSE prevGoalAwarded
      goalXpDelta == IF newGoalAwarded = 1 /\ prevGoalAwarded = 0
                     THEN HYDRATION_GOAL_BONUS_XP ELSE 0
  IN [fields |-> ("hydration_glasses" :> glasses)
                 @@ ("hydration_xp_glasses" :> newXpGlasses)
                 @@ ("hydration_goal_xp_awarded" :> newGoalAwarded),
      paid |-> ("hydration_goal_xp_awarded" :> goalXpDelta),
      extra |-> glassXpDelta]

\* "HH:MM" split at the colon and read as numbers: minutes since midnight
Minutes(hhmm) == hhmm[1] * 60 + hhmm[2]

\* Math.round((diffMin / 60) * 10) / 10, in tenths of an hour
SleepTenths(effectiveStart, effectiveEnd) ==
  LET startMin == Minutes(effectiveStart)
      endMin == Minutes(effectiveEnd)
      diffMin == IF endMin >= startMin THEN endMin - startMin
                 ELSE 1440 - startMin + endMin
  IN (diffMin + 3) \div 6

SleepRule(logs, d, sleepStart, sleepEnd) ==
  LET effectiveStart == IF sleepStart # NoTime THEN sleepStart
                        ELSE TimeCol(logs, d, "sleep_start")
      effectiveEnd == IF sleepEnd # NoTime THEN sleepEnd
                      ELSE TimeCol(logs, d, "sleep_end")
      sleepHours == IF effectiveStart # NoTime /\ effectiveEnd # NoTime
                    THEN SleepTenths(effectiveStart, effectiveEnd) ELSE NULL
      prevStartAwarded == Col(logs, d, "sleep_xp_start_awarded", 0)
      newStartAwarded == IF effectiveStart # NoTime /\ prevStartAwarded = 0
                         THEN 1 ELSE prevStartAwarded
      prevEndAwarded == Col(logs, d, "sleep_xp_end_awarded", 0)
      newEndAwarded == IF effectiveEnd # NoTime /\ prevEndAwarded = 0
                       THEN 1 ELSE prevEndAwarded
      prevGoalAwarded == Col(logs, d, "sleep_goal_xp_awarded", 0)
      goalMet == sleepHours # NULL /\ sleepHours >= SLEEP_GOAL_TENTHS
      newGoalAwarded == IF goalMet /\ prevGoalAwarded = 0 THEN 1 ELSE prevGoalAwarded
  IN [fields |-> ("sleep_xp_start_awarded" :> newStartAwarded)
                 @@ ("sleep_xp_end_awarded" :> newEndAwarded)
                 @@ ("sleep_goal_xp_awarded" :> newGoalAwarded)
                 @@ Opt(effectiveStart # NoTime, "sleep_start", effectiveStart)
                 @@ Opt(effectiveEnd # NoTime, "sleep_end", effectiveEnd)
                 @@ Opt(sleepHours # NULL, "sleep_hours", sleepHours),
      paid |-> ("sleep_xp_start_awarded" :>
                  (IF newStartAwarded = 1 /\ prevStartAwarded = 0 THEN SLEEP_LOG_XP ELSE 0))
               @@ ("sleep_xp_end_awarded" :>
                  (IF newEndAwarded = 1 /\ prevEndAwarded = 0 THEN SLEEP_LOG_XP ELSE 0))
               @@ ("sleep_goal_xp_awarded" :>
                  (IF newGoalAwarded = 1 /\ prevGoalAwarded = 0 THEN SLEEP_GOAL_BONUS_XP ELSE 0)),
      extra |-> 0]

\* the award flag follows the checkbox: unchecking clears it
FoodRule_FlagFollowsCheckbox(logs, d, item, checked) ==
  LET habit == FOOD_HABITS[item]
      done == checked = 1
      prevXpAwarded == Col(logs, d, habit.xpCol, 0)
      newXpAwarded == IF done THEN 1 ELSE 0
      rawXpDelta == IF newXpAwarded = 1 /\ prevXpAwarded = 0 THEN habit.xp ELSE 0
  IN [fields |-> (habit.col :> (IF done THEN 1 ELSE 0))
                 @@ (habit.xpCol :> newXpAwarded),
      paid |-> (habit.xpCol :> rawXpDelta),
      extra |-> 0]

FoodRule(logs, d, item, checked) ==
  LET habit == FOOD_HABITS[item]
      done == checked = 1
      prevXpAwarded == Col(logs, d, habit.xpCol, 0)
      newXpAwarded == IF done /\ prevXpAwarded = 0 THEN 1 ELSE prevXpAwarded
      rawXpDelta == IF newXpAwarded = 1 /\ prevXpAwarded = 0 THEN habit.xp ELSE 0
  IN [fields |-> (habit.col :> (IF done THEN 1 ELSE 0))
                 @@ (habit.xpCol :> newXpAwarded),
      paid |-> (habit.xpCol :> rawXpDelta),
      extra |-> 0]

\* the count of the request taken as the steps of the day
StepsRule_LastReportWins(logs, d, cfg, t, source, steps) ==
  LET stepGoal == Goal(cfg, "daily_steps", 10000)
      goalXp == IF stepGoal = 5000 THEN 20 ELSE 40
      prevManual == Col(logs, d, "steps_manual", 0)
      newManual == IF source = "manual" THEN steps
                   ELSE Col(logs, d, "steps_manual", NULL)
      newGoogleFit == IF source = "google_fit" THEN steps
                      ELSE Col(logs, d, "steps_google_fit", NULL)
      effectiveSteps == steps
      prevGoalXpAwarded == Col(logs, d, "steps_goal_xp_awarded", 0)
      newGoalXpAwarded == IF effectiveSteps >= stepGoal /\ prevGoalXpAwarded = 0
                          THEN 1 ELSE prevGoalXpAwarded
      prevLastBonusAt == Col(logs, d, "steps_last_bonus_at", NULL)
      stepIncrease == steps - prevManual
      lastBonusMs == IF prevLastBonusAt # NULL THEN prevLastBonusAt ELSE 0
      cooldownPassed == t - lastBonusMs >= TWO_HOURS
      bonus == source = "manual" /\ stepIncrease >= STEP_BONUS_INCREMENT
               /\ cooldownPassed
      newLastBonusAt == IF bonus THEN t ELSE prevLastBonusAt
  IN [fields |-> ("steps" :> effectiveSteps)
                 @@ ("steps_goal_xp_awarded" :> newGoalXpAwarded)
                 @@ ("steps_last_bonus_at" :> newLastBonusAt)
                 @@ (IF source = "manual" THEN "steps_manual" :> newManual
                     ELSE "steps_google_fit" :> newGoogleFit),
      paid |-> ("steps_goal_xp_awarded" :>
                  (IF newGoalXpAwarded = 1 /\ prevGoalXpAwarded = 0 THEN goalXp ELSE 0)),
      extra |-> IF bonus THEN STEP_BONUS_XP ELSE 0]

StepsRule(logs, d, cfg, t, source, steps) ==
  LET stepGoal == Goal(cfg, "daily_steps", 10000)
      goalXp == IF stepGoal = 5000 THEN 20 ELSE 40
      prevManual == Col(logs, d, "steps_manual", 0)
      newManual == IF source = "manual" THEN steps
                   ELSE Col(logs, d, "steps_manual", NULL)
      newGoogleFit == IF source = "google_fit" THEN steps
                      ELSE Col(logs, d, "steps_google_fit", NULL)
      effectiveSteps == Max(IF newManual = NULL THEN 0 ELSE newManual,
                            IF newGoogleFit = NULL THEN 0 ELSE newGoogleFit)
      prevGoalXpAwarded == Col(logs, d, "steps_goal_xp_awarded", 0)
      newGoalXpAwarded == IF effectiveSteps >= stepGoal /\ prevGoalXpAwarded = 0
                          THEN 1 ELSE prevGoalXpAwarded
      prevLastBonusAt == Col(logs, d, "steps_last_bonus_at", NULL)
      stepIncrease == steps - prevManual
      lastBonusMs == IF prevLastBonusAt # NULL THEN prevLastBonusAt ELSE 0
      cooldownPassed == t - lastBonusMs >= TWO_HOURS
      bonus == source = "manual" /\ stepIncrease >= STEP_BONUS_INCREMENT
               /\ cooldownPassed
      newLastBonusAt == IF bonus THEN t ELSE prevLastBonusAt
  IN [fields |-> ("steps" :> effectiveSteps)
                 @@ ("steps_goal_xp_awarded" :> newGoalXpAwarded)
                 @@ ("steps_last_bonus_at" :> newLastBonusAt)
                 @@ (IF source = "manual" THEN "steps_manual" :> newManual
                     ELSE "steps_google_fit" :> newGoogleFit),
      paid |-> ("steps_goal_xp_awarded" :>
                  (IF newGoalXpAwarded = 1 /\ prevGoalXpAwarded = 0 THEN goalXp ELSE 0)),
      extra |-> IF bonus THEN STEP_BONUS_XP ELSE 0]

----------------------------------------------------------------------------
(* utils/streak.js *)

STREAK_THRESHOLD == 3
SHIELD_STREAK_INTERVAL == 7
MAX_SHIELDS == 1

addDays(dateStr, days) == dateStr + days

Bit(b) == IF b THEN 1 ELSE 0

countCompletedCategories(logs, cfg, dateStr) ==
  IF ~HasRow(logs, dateStr) THEN 0
  ELSE LET log == logs[dateStr] IN
       Bit(log.steps # NULL /\ log.steps >= Goal(cfg, "daily_steps", 10000))
       + Bit(log.hydration_glasses # NULL
             /\ log.hydration_glasses >= Goal(cfg, "hydration_glasses", 8))
       + Bit(log.sleep_hours # NULL /\ log.sleep_hours >= 70)
       + Bit(log.movement_done = 1)
       + Bit(log.food_vegetables = 1 \/ log.food_no_junk = 1
             \/ log.food_breakfast = 1)

\* a missed day takes the shield and resets the streak as well
StreakDay_ResetsWithShield(st, completed) ==
  LET afterRule ==
        IF completed >= STREAK_THRESHOLD
        THEN LET inc == st.currentStreak + 1 IN
             [st EXCEPT !.currentStreak = inc,
                        !.shields = IF inc > 0 /\ inc % SHIELD_STREAK_INTERVAL = 0
                                       /\ st.shields < MAX_SHIELDS
                                    THEN @ + 1 ELSE @]
        ELSE IF st.shields > 0
        THEN [st EXCEPT !.shields = @ - 1, !.currentStreak = 0]
        ELSE [st EXCEPT !.currentStreak = 0]
  IN [afterRule EXCEPT !.longestStreak = Max(@, afterRule.currentStreak)]

\* a shield granted at every multiple of 7, whatever is banked
StreakDay_UnboundedShields(st, completed) ==
  LET afterRule ==
        IF completed >= STREAK_THRESHOLD
        THEN LET inc == st.currentStreak + 1 IN
             [st EXCEPT !.currentStreak = inc,
                        !.shields = IF inc > 0 /\ inc % SHIELD_STREAK_INTERVAL = 0
                                    THEN @ + 1 ELSE @]
        ELSE IF st.shields > 0 THEN [st EXCEPT !.shields = @ - 1]
        ELSE [st EXCEPT !.currentStreak = 0]
  IN [afterRule EXCEPT !.longestStreak = Max(@, afterRule.currentStreak)]

\* a missed day that resets the streak and leaves the shield in the bank
StreakDay_ResetKeepsShield(st, completed) ==
  LET afterRule ==
        IF completed >= STREAK_THRESHOLD
        THEN LET inc == st.currentStreak + 1 IN
             [st EXCEPT !.currentStreak = inc,
                        !.shields = IF inc > 0 /\ inc % SHIELD_STREAK_INTERVAL = 0
                                       /\ st.shields < MAX_SHIELDS
                                    THEN @ + 1 ELSE @]
        ELSE [st EXCEPT !.currentStreak = 0]
  IN [afterRule EXCEPT !.longestStreak = Max(@, afterRule.currentStreak)]

\* one pass of the while loop for the day evalDate
StreakDay(st, completed) ==
  LET afterRule ==
        IF completed >= STREAK_THRESHOLD
        THEN LET inc == st.currentStreak + 1 IN
             [st EXCEPT !.currentStreak = inc,
                        !.shields = IF inc > 0 /\ inc % SHIELD_STREAK_INTERVAL = 0
                                       /\ st.shields < MAX_SHIELDS
                                    THEN @ + 1 ELSE @]
        ELSE IF st.shields > 0 THEN [st EXCEPT !.shields = @ - 1]
        ELSE [st EXCEPT !.currentStreak = 0]
  IN [afterRule EXCEPT !.longestStreak = Max(@, afterRule.currentStreak)]

\* the days passed over from yesterday back to the first unevaluated day
RECURSIVE StreakLoop_Backwards(_, _, _, _, _)
StreakLoop_Backwards(logs, cfg, evalDate, yesterday, st) ==
  IF evalDate <= yesterday
  THEN StreakLoop_Backwards(logs, cfg, evalDate, addDays(yesterday, -1),
                            StreakDay(st, countCompletedCategories(logs, cfg, yesterday)))
  ELSE st

RECURSIVE StreakLoop(_, _, _, _, _)
StreakLoop(logs, cfg, evalDate, yesterday, st) ==
  IF evalDate <= yesterday
  THEN StreakLoop(logs, cfg, addDays(evalDate, 1), yesterday,
                  StreakDay(st, countCompletedCategories(logs, cfg, evalDate)))
  ELSE st

\* the watermark left where it was by a call that judges days
evaluateStreakIfNeeded_KeepsWatermark(u, logs, cfg, tdy) ==
  LET lastEval == u.streak_last_evaluated_date IN
  IF lastEval = NULL THEN [u EXCEPT !.streak_last_evaluated_date = tdy]
  ELSE IF lastEval >= tdy THEN u
  ELSE LET st == StreakLoop(logs, cfg, addDays(lastEval, 1), addDays(tdy, -1),
                            [currentStreak |-> u.current_streak,
                             longestStreak |-> u.longest_streak,
                             shields |-> u.streak_shields])
       IN [u EXCEPT !.current_streak = st.currentStreak,
                    !.longest_streak = st.longestStreak,
                    !.streak_shields = st.shields]

\* a first call that judges the days before today, from date 0 on
evaluateStreakIfNeeded_FirstCallJudges(u, logs, cfg, tdy) ==
  LET lastEval == u.streak_last_evaluated_date IN
  IF lastEval # NULL /\ lastEval >= tdy THEN u
  ELSE LET st == StreakLoop(logs, cfg,
                            IF lastEval = NULL THEN 0 ELSE addDays(lastEval, 1),
                            addDays(tdy, -1),
                            [currentStreak |-> u.current_streak,
                             longestStreak |-> u.longest_streak,
                             shields |-> u.streak_shields])
       IN [u EXCEPT !.current_streak = st.currentStreak,
                    !.longest_streak = st.longestStreak,
                    !.streak_shields = st.shields,
                    !.streak_last_evaluated_date = tdy]

\* longest_streak taken from the streak the loop ends with
evaluateStreakIfNeeded_LongestAtEnd(u, logs, cfg, tdy) ==
  LET lastEval == u.streak_last_evaluated_date IN
  IF lastEval = NULL THEN [u EXCEPT !.streak_last_evaluated_date = tdy]
  ELSE IF lastEval >= tdy THEN u
  ELSE LET st == StreakLoop(logs, cfg, addDays(lastEval, 1), addDays(tdy, -1),
                            [currentStreak |-> u.current_streak,
                             longestStreak |-> u.longest_streak,
                             shields |-> u.streak_shields])
       IN [u EXCEPT !.current_streak = st.currentStreak,
                    !.longest_streak = Max(u.longest_streak, st.currentStreak),
                    !.streak_shields = st.shields,
                    !.streak_last_evaluated_date = tdy]

\* an evaluation that pays one XP for every day of the streak it stores
evaluateStreakIfNeeded_PaysStreakXp(u, logs, cfg, tdy) ==
  LET lastEval == u.streak_last_evaluated_date IN
  IF lastEval = NULL THEN [u EXCEPT !.streak_last_evaluated_date = tdy]
  ELSE IF lastEval >= tdy THEN u
  ELSE LET st == StreakLoop(logs, cfg, addDays(lastEval, 1), addDays(tdy, -1),
                            [currentStreak |-> u.current_streak,
                             longestStreak |-> u.longest_streak,
                             shields |-> u.streak_shields])
       IN [u EXCEPT !.current_streak = st.currentStreak,
                    !.longest_streak = st.longestStreak,
                    !.streak_shields = st.shields,
                    !.streak_last_evaluated_date = tdy,
                    !.xp_total = @ + st.currentStreak]

\* the users row after evaluateStreakIfNeeded on the date tdy
evaluateStreakIfNeeded(u, logs, cfg, tdy) ==
  LET lastEval == u.streak_last_evaluated_date IN
  IF lastEval = NULL THEN [u EXCEPT !.streak_last_evaluated_date = tdy]
  ELSE IF lastEval >= tdy THEN u
  ELSE LET st == StreakLoop(logs, cfg, addDays(lastEval, 1), addDays(tdy, -1),
                            [currentStreak |-> u.current_streak,
                             longestStreak |-> u.longest_streak,
                             shields |-> u.streak_shields])
       IN [u EXCEPT !.current_streak = st.currentStreak,
                    !.longest_streak = st.longestStreak,
                    !.streak_shields = st.shields,
                    !.streak_last_evaluated_date = tdy]

\* the dates that the while loop of evaluateStreakIfNeeded passes over when
\* it is called on the date tdy
JudgedDates(u, tdy) ==
  LET lastEval == u.streak_last_evaluated_date IN
  IF lastEval = NULL \/ lastEval >= tdy THEN {}
  ELSE addDays(lastEval, 1)..addDays(tdy, -1)

----------------------------------------------------------------------------
(* utils/mascot.js and the starter mascots of routes/onboarding.js *)

BmiCategories == {"underweight", "normal", "overweight", "obese_1", "obese_2"}

MASCOT_MAP ==
  [underweight |-> 1, normal |-> 2, overweight |-> 3, obese_1 |-> 4, obese_2 |-> 5]

\* the ids of the three stages of every BMI category
MASCOT_EVOLUTION ==
  [underweight |-> <<1, 11, 12>>, normal |-> <<2, 21, 22>>,
   overweight |-> <<3, 31, 32>>, obese_1 |-> <<4, 41, 42>>,
   obese_2 |-> <<5, 51, 52>>]

EVOLUTION_LEVEL_5 == 5
EVOLUTION_LEVEL_10 == 10

getMascotStageForLevel(level) ==
  IF level >= EVOLUTION_LEVEL_10 THEN 2
  ELSE IF level >= EVOLUTION_LEVEL_5 THEN 1
  ELSE 0

\* the id of the mascot of a category at a level, NULL for an unknown category
getMascotForLevel(bmiCategory, level) ==
  IF bmiCategory \notin BmiCategories THEN NULL
  ELSE MASCOT_EVOLUTION[bmiCategory][getMascotStageForLevel(level) + 1]

\* the users row and the badge types held after checkAndApplyEvolution
checkAndApplyEvolution(u, held, previousLevel, newLevel) ==
  LET crossedLevel5 == previousLevel < EVOLUTION_LEVEL_5 /\ newLevel >= EVOLUTION_LEVEL_5
      crossedLevel10 == previousLevel < EVOLUTION_LEVEL_10 /\ newLevel >= EVOLUTION_LEVEL_10
      newMascot == getMascotForLevel(u.bmi_category, newLevel)
      badgeType == IF crossedLevel10 THEN "champion" ELSE "evolution_5"
      unchanged == [users |-> u, badges |-> held]
  IN IF newLevel <= previousLevel THEN unchanged
     ELSE IF ~crossedLevel5 /\ ~crossedLevel10 THEN unchanged
     ELSE IF u.bmi_category = "" THEN unchanged
     ELSE IF newMascot = NULL THEN unchanged
     ELSE IF newMascot = u.mascot_id THEN unchanged
     ELSE [users |-> [u EXCEPT !.mascot_id = newMascot],
           badges |-> (IF crossedLevel5 /\ crossedLevel10
                       THEN held \cup {"evolution_5"} ELSE held)
                      \cup {badgeType}]

\* the columns of the table users: the CREATE TABLE of db/index.js and the
\* columns that its migrations add
UsersColumns ==
  {"id", "email", "password_hash", "name", "age", "gender", "height_cm",
   "weight_kg", "bmi", "bmi_category", "mascot_id", "mascot_name", "xp_total",
   "level", "current_streak", "longest_streak", "streak_shields", "timezone",
   "created_at", "last_active_at", "email_verified", "onboarding_step",
   "team_reminder_at", "streak_last_evaluated_date"}

\* the tables that db/index.js creates
Tables ==
  {"users", "email_verifications", "password_resets", "sessions",
   "habits_config", "teams", "team_members", "mascots", "daily_logs",
   "team_challenges", "challenge_entries", "notifications_config"}

\* db.prepare throws on a statement that names a column the table lacks
UserStatementPrepares(columns) == columns \subseteq UsersColumns

\* a call of checkAndApplyEvolution: the two returns that precede the first
\* statement, then the SELECT on users, which must be prepared before any
\* row is read or written.  outcome is "null" for a return of null, "evolved"
\* for a return of the evolution and "throws" for an exception.
EvolutionCall(u, held, previousLevel, newLevel) ==
  LET crossedLevel5 == previousLevel < EVOLUTION_LEVEL_5 /\ newLevel >= EVOLUTION_LEVEL_5
      crossedLevel10 == previousLevel < EVOLUTION_LEVEL_10 /\ newLevel >= EVOLUTION_LEVEL_10
      e == checkAndApplyEvolution(u, held, previousLevel, newLevel)
  IN IF newLevel <= previousLevel THEN [users |-> u, badges |-> held, outcome |-> "null"]
     ELSE IF ~crossedLevel5 /\ ~crossedLevel10
     THEN [users |-> u, badges |-> held, outcome |-> "null"]
     ELSE IF ~UserStatementPrepares({"bmi_category", "mascot_id", "mascot_name", "mascot_stage"})
     THEN [users |-> u, badges |-> held, outcome |-> "throws"]
     ELSE [users |-> e.users, badges |-> e.badges,
           outcome |-> IF e.users = u THEN "null" ELSE "evolved"]

----------------------------------------------------------------------------
(* Requests *)

Req(cat, source, value, start, end, item) ==
  [cat |-> cat, source |-> source, value |-> value,
   start |-> start, end |-> end, item |-> item]

NoReq == Req("none", "", 0, NoTime, NoTime, "")

StepsReq(source, steps) == Req("steps", source, steps, NoTime, NoTime, "")
MovementReq(value) == Req("movement", "", value, NoTime, NoTime, "")
HydrationReq(glasses) == Req("hydration", "", glasses, NoTime, NoTime, "")
SleepReq(sleepStart, sleepEnd) == Req("sleep", "", 0, sleepStart, sleepEnd, "")
FoodReq(item, checked) == Req("food", "", checked, NoTime, NoTime, item)

\* the dispatch of PATCH /api/habits/today/:category
RuleFor(r, logs, d, cfg, t) ==
  CASE r.cat = "steps" -> StepsRule(logs, d, cfg, t, r.source, r.value)
    [] r.cat = "movement" -> MovementRule(logs, d, r.value)
    [] r.cat = "hydration" -> HydrationRule(logs, d, cfg, r.value)
    [] r.cat = "sleep" -> SleepRule(logs, d, r.start, r.end)
    [] r.cat = "food" -> FoodRule(logs, d, r.item, r.value)

----------------------------------------------------------------------------
(* The commit of an update *)

\* xp_total overwritten with the XP of the update
applyXpToUser_SetsTotal(u, xpDelta) ==
  IF xpDelta <= 0
  THEN [users |-> u, leveledUp |-> FALSE]
  ELSE LET previousLevel == u.level
           newXpTotal == xpDelta
           newLevel == getLevelForXp(newXpTotal)
       IN [users |-> [u EXCEPT !.xp_total = newXpTotal, !.level = newLevel],
           leveledUp |-> newLevel > previousLevel]

\* xp_total updated, the cached level left as it was
applyXpToUser_KeepsLevel(u, xpDelta) ==
  IF xpDelta <= 0
  THEN [users |-> u, leveledUp |-> FALSE]
  ELSE [users |-> [u EXCEPT !.xp_total = u.xp_total + xpDelta],
        leveledUp |-> FALSE]

applyXpToUser(u, xpDelta) ==
  IF xpDelta <= 0
  THEN [users |-> u, leveledUp |-> FALSE]
  ELSE LET previousLevel == u.level
           newXpTotal == u.xp_total + xpDelta
           newLevel == getLevelForXp(newXpTotal)
       IN [users |-> [u EXCEPT !.xp_total = newXpTotal, !.level = newLevel],
           leveledUp |-> newLevel > previousLevel]

\* the cap applied to every award of the update on its own
Plan_CapsEachAward(rule, logs, d) ==
  LET currentDayXp == Col(logs, d, "xp_earned", 0)
      capped == [f \in DOMAIN rule.paid |-> capDailyXp(currentDayXp, rule.paid[f])]
      xpDelta == SumOver(capped, DOMAIN capped) + capDailyXp(currentDayXp, rule.extra)
  IN [existing |-> HasRow(logs, d),
      d |-> d,
      fields |-> rule.fields
                 @@ Opt(xpDelta > 0, "xp_earned", currentDayXp + xpDelta),
      xpDelta |-> xpDelta,
      rawXpDelta |-> RawOf(rule),
      paid |-> rule.paid]

\* the handler takes the date to have no row, whatever the table holds
Plan_NeverFindsRow(rule, logs, d) ==
  LET rawXpDelta == RawOf(rule)
      currentDayXp == Col(logs, d, "xp_earned", 0)
      xpDelta == capDailyXp(currentDayXp, rawXpDelta)
  IN [existing |-> FALSE,
      d |-> d,
      fields |-> rule.fields
                 @@ Opt(xpDelta > 0, "xp_earned", currentDayXp + xpDelta),
      xpDelta |-> xpDelta,
      rawXpDelta |-> rawXpDelta,
      paid |-> rule.paid]

\* xpDelta and the columns to write, from the row the handler has read:
\* the cap is applied to the summed raw XP, xp_earned is written only when
\* some XP is applied
Plan(rule, logs, d) ==
  LET rawXpDelta == RawOf(rule)
      currentDayXp == Col(logs, d, "xp_earned", 0)
      xpDelta == capDailyXp(currentDayXp, rawXpDelta)
  IN [existing |-> HasRow(logs, d),
      d |-> d,
      fields |-> rule.fields
                 @@ Opt(xpDelta > 0, "xp_earned", currentDayXp + xpDelta),
      xpDelta |-> xpDelta,
      rawXpDelta |-> rawXpDelta,
      paid |-> rule.paid]

\* the user credited with the raw XP of the update instead of the capped XP
Transaction_AppliesRawXp(u, logs, plan, fail) ==
  LET d == plan.d
      ledgerFails == fail = "ledger" \/ (~plan.existing /\ HasRow(logs, d))
      logs1 == IF plan.existing
               THEN [logs EXCEPT ![d] = Merge(plan.fields, @)]
               ELSE (d :> Merge(plan.fields, DefaultRow)) @@ logs
      userFails == fail = "user" /\ plan.xpDelta > 0
      applied == applyXpToUser(u, plan.rawXpDelta)
  IN IF ledgerFails \/ userFails
     THEN [ok |-> FALSE, users |-> u, daily_logs |-> logs, leveledUp |-> FALSE]
     ELSE [ok |-> TRUE, users |-> applied.users, daily_logs |-> logs1,
           leveledUp |-> applied.leveledUp]

\* the row written by the transaction stays when the users update fails
Transaction_NoRollback(u, logs, plan, fail) ==
  LET d == plan.d
      ledgerFails == fail = "ledger" \/ (~plan.existing /\ HasRow(logs, d))
      logs1 == IF plan.existing
               THEN [logs EXCEPT ![d] = Merge(plan.fields, @)]
               ELSE (d :> Merge(plan.fields, DefaultRow)) @@ logs
      userFails == fail = "user" /\ plan.xpDelta > 0
      applied == applyXpToUser(u, plan.xpDelta)
  IN IF ledgerFails
     THEN [ok |-> FALSE, users |-> u, daily_logs |-> logs, leveledUp |-> FALSE]
     ELSE IF userFails
     THEN [ok |-> FALSE, users |-> u, daily_logs |-> logs1, leveledUp |-> FALSE]
     ELSE [ok |-> TRUE, users |-> applied.users, daily_logs |-> logs1,
           leveledUp |-> applied.leveledUp]

\* db.transaction(() => { UPDATE or INSERT of the row; applyXpToUser }) on the
\* tables (u, logs).  The row is updated when the handler had found one, and
\* inserted otherwise; the insert fails on UNIQUE(user_id, log_date) when the
\* date has a row by now.  fail names the statement the store fails at, if
\* any.  A failing statement throws, and the transaction rolls back.
Transaction(u, logs, plan, fail) ==
  LET d == plan.d
      ledgerFails == fail = "ledger" \/ (~plan.existing /\ HasRow(logs, d))
      logs1 == IF plan.existing
               THEN [logs EXCEPT ![d] = Merge(plan.fields, @)]
               ELSE (d :> Merge(plan.fields, DefaultRow)) @@ logs
      userFails == fail = "user" /\ plan.xpDelta > 0
      applied == applyXpToUser(u, plan.xpDelta)
  IN IF ledgerFails \/ userFails
     THEN [ok |-> FALSE, users |-> u, daily_logs |-> logs, leveledUp |-> FALSE]
     ELSE [ok |-> TRUE, users |-> applied.users, daily_logs |-> logs1,
           leveledUp |-> applied.leveledUp]

\* the response of a handler: res.json({... xpAwarded ...}) or, when the
\* transaction throws, the 500 of the global error handler
Response(tx, plan) ==
  IF tx.ok THEN [status |-> 200, xpAwarded |-> plan.xpDelta]
  ELSE [status |-> 500, xpAwarded |-> 0]

\* bookkeeping of what a committed update has triggered on its date
Counted(pc, plan) ==
  [pc EXCEPT ![plan.d] =
     [f \in OneShotFlags |->
        IF f \in DOMAIN plan.paid /\ plan.paid[f] > 0
        THEN Min(MaxPaid, @[f] + 1) ELSE @[f]]]

\* the rows that the INSERT statements have added, by date: one more when the
\* transaction commits with an INSERT
Inserted(ri, tx, plan) ==
  IF tx.ok /\ ~plan.existing
  THEN [ri EXCEPT ![plan.d] = Min(MaxPaid, @ + 1)] ELSE ri

\* what a handler does with request r: the plan from today's row as it is
\* read, and the outcome of the transaction
Outcome(r, fail) ==
  LET plan == Plan(RuleFor(r, daily_logs, today, habits_config, now), daily_logs, today)
  IN [plan |-> plan, tx |-> Transaction(users, daily_logs, plan, fail)]

\* a whole handler: read of today's row, rules, cap, transaction
Handle(r, fail) ==
  LET o == Outcome(r, fail) IN
     /\ nreq < MaxRequests
     /\ nreq' = nreq + 1
     /\ users' = o.tx.users
     /\ daily_logs' = o.tx.daily_logs
     /\ rawToday' = IF o.tx.ok
                    THEN [rawToday EXCEPT ![today] = @ + o.plan.rawXpDelta]
                    ELSE rawToday
     /\ paidCount' = IF o.tx.ok THEN Counted(paidCount, o.plan) ELSE paidCount
     /\ rowsInserted' = Inserted(rowsInserted, o.tx, o.plan)
     /\ UNCHANGED accountVars
     /\ UNCHANGED <<now, habits_config, inflight, base, badges, judged, call>>

\* the runs that do not observe the responses
Unobserved == UNCHANGED <<resp, lastReq>>

\* the runs that do: the response of the handler, the request it served and
\* how many times in a row that request has now been served on this date
Observed(r, fail) ==
  LET o == Outcome(r, fail) IN
     /\ resp' = Response(o.tx, o.plan)
     /\ lastReq' = [req |-> r, date |-> today,
                    times |-> IF lastReq.req = r /\ lastReq.date = today
                              THEN Min(MaxPaid, lastReq.times + 1) ELSE 1]

----------------------------------------------------------------------------
(* Inputs *)

Dates == 0..Max(MaxDay, MaxStreakDay)

Sources == {"manual", "google_fit"}

\* the requests of the runs that mix the five categories
StepsInputs ==
  {StepsReq("manual", 600), StepsReq("manual", 10000), StepsReq("google_fit", 10000)}
MovementInputs == {MovementReq(v) : v \in {0, 1}}
HydrationInputs == {HydrationReq(g) : g \in {3, 30}}
SleepInputs ==
  {SleepReq(<<23, 0>>, NoTime), SleepReq(NoTime, <<6, 0>>),
   SleepReq(<<23, 0>>, <<6, 0>>), SleepReq(NoTime, <<4, 0>>)}
FoodInputs == {FoodReq(item, checked) : item \in FoodItems, checked \in {0, 1}}

\* the accounts when the observed days begin: a new account, without
\* habits_config row, and an account that has gone through onboarding
\* (overweight: 5000 steps, 12 glasses by weight) and has earned the daily
\* cap on three earlier days
Accounts ==
  {[xp |-> 0, bmi |-> "", cfg |-> <<>>],
   [xp |-> 450, bmi |-> "overweight",
    cfg |-> <<[daily_steps |-> 5000, hydration_glasses |-> 12]>>]}

\* the users row: the defaults of the schema, the BMI category and starter
\* mascot of onboarding step 2 ("" and NULL before that step), and the
\* xp_total and level earned so far
NewUser(x, bmi) ==
  [xp_total |-> x, level |-> getLevelForXp(x),
   current_streak |-> 0, longest_streak |-> 0, streak_shields |-> 0,
   streak_last_evaluated_date |-> NULL,
   bmi_category |-> bmi,
   mascot_id |-> IF bmi = "" THEN NULL ELSE MASCOT_MAP[bmi]]

NoResp == [status |-> 0, xpAwarded |-> 0]
NoCall == [fn |-> "none", args |-> <<>>, out |-> <<>>]

\* the table sessions before the first login: the rows by token, and how many
\* tokens uuidv4 has issued (a token is never issued twice)
NoSessions == [issued |-> 0, rows |-> <<>>]
Idle == [pc |-> "idle", req |-> NoReq, plan |-> <<>>]
Procs == {1, 2}

----------------------------------------------------------------------------
(* Serial operation: one request at a time, each handler run to its end *)

\* the state of the database and of the server before the first request
Start(a) ==
  /\ now = StartNow
  /\ users = NewUser(a.xp, a.bmi)
  /\ habits_config = a.cfg
  /\ badges = {}
  /\ daily_logs = <<>>
  /\ resp = NoResp
  /\ rawToday = [d \in Dates |-> 0]
  /\ paidCount = [d \in Dates |-> [f \in OneShotFlags |-> 0]]
  /\ lastReq = [req |-> NoReq, date |-> 0, times |-> 0]
  /\ inflight = [p \in Procs |-> Idle]
  /\ base = <<>>
  /\ nreq = 0
  /\ rowsInserted = [d \in Dates |-> 0]
  /\ judged = [d \in Dates |-> 0]
  /\ call = NoCall
  /\ sessions = NoSessions
  /\ teams = {}
  /\ team_members = {}

Init == \E a \in Accounts : Start(a)

\* the account that has gone through onboarding
Onboarded == {a \in Accounts : a.cfg # <<>>}

InitOnboarded == \E a \in Onboarded : Start(a)

HandleStepsUpdate ==
  \E r \in StepsInputs : Handle(r, "none") /\ Unobserved

HandleMovementUpdate ==
  \E r \in MovementInputs : Handle(r, "none") /\ Unobserved

HandleHydrationUpdate ==
  \E r \in HydrationInputs : Handle(r, "none") /\ Unobserved

HandleSleepUpdate ==
  \E r \in SleepInputs : Handle(r, "none") /\ Unobserved

HandleFoodUpdate ==
  \E r \in FoodInputs : Handle(r, "none") /\ Unobserved

\* time passes
Tick ==
  /\ now < MaxNow
  /\ now' = now + 1
  /\ UNCHANGED accountVars
  /\ UNCHANGED <<users, daily_logs, habits_config, resp, rawToday, paidCount,
                 lastReq, inflight, base, nreq, badges, rowsInserted, judged,
                 call>>

Next ==
  \/ HandleStepsUpdate
  \/ HandleMovementUpdate
  \/ HandleHydrationUpdate
  \/ HandleSleepUpdate
  \/ HandleFoodUpdate
  \/ Tick

Spec == Init /\ [][Next]_vars

----------------------------------------------------------------------------
(* Serial operation with the responses observed *)

AllInputs ==
  StepsInputs \cup MovementInputs \cup HydrationInputs \cup SleepInputs
  \cup FoodInputs

ObservedStepsUpdate ==
  \E r \in StepsInputs : Handle(r, "none") /\ Observed(r, "none")

ObservedMovementUpdate ==
  \E r \in MovementInputs : Handle(r, "none") /\ Observed(r, "none")

ObservedHydrationUpdate ==
  \E r \in HydrationInputs : Handle(r, "none") /\ Observed(r, "none")

ObservedSleepUpdate ==
  \E r \in SleepInputs : Handle(r, "none") /\ Observed(r, "none")

ObservedFoodUpdate ==
  \E r \in FoodInputs : Handle(r, "none") /\ Observed(r, "none")

NextObserved ==
  \/ ObservedStepsUpdate
  \/ ObservedMovementUpdate
  \/ ObservedHydrationUpdate
  \/ ObservedSleepUpdate
  \/ ObservedFoodUpdate
  \/ Tick

SpecObserved == InitOnboarded /\ [][NextObserved]_vars

----------------------------------------------------------------------------
(* Serial operation with a store that may fail inside the transaction *)

\* the statement of the transaction the store fails at, if any
Failures == {"none", "ledger", "user"}

FailingStepsUpdate ==
  \E r \in StepsInputs, fail \in Failures : Handle(r, fail) /\ Observed(r, fail)

FailingMovementUpdate ==
  \E r \in MovementInputs, fail \in Failures :
     Handle(r, fail) /\ Observed(r, fail)

FailingHydrationUpdate ==
  \E r \in HydrationInputs, fail \in Failures :
     Handle(r, fail) /\ Observed(r, fail)

FailingSleepUpdate ==
  \E r \in SleepInputs, fail \in Failures : Handle(r, fail) /\ Observed(r, fail)

FailingFoodUpdate ==
  \E r \in FoodInputs, fail \in Failures : Handle(r, fail) /\ Observed(r, fail)

NextFail ==
  \/ FailingStepsUpdate
  \/ FailingMovementUpdate
  \/ FailingHydrationUpdate
  \/ FailingSleepUpdate
  \/ FailingFoodUpdate

SpecFail == InitOnboarded /\ [][NextFail]_vars

----------------------------------------------------------------------------
(* Serial operation over several days, with the streak evaluations and the
   evolution checks *)

\* the requests of the runs over several days: for each category a value that
\* earns XP and completes the category and, where there is one, the lower
\* value that takes the completion back
DailyStepsInputs == {StepsReq("manual", 10000), StepsReq("manual", 600)}
DailyMovementInputs == MovementInputs
DailyHydrationInputs == {HydrationReq(30)}
DailySleepInputs == {SleepReq(<<23, 0>>, <<6, 0>>)}
DailyFoodInputs == {FoodReq("vegetables", checked) : checked \in {0, 1}}

DailyStepsUpdate ==
  \E r \in DailyStepsInputs : Handle(r, "none") /\ Unobserved

DailyMovementUpdate ==
  \E r \in DailyMovementInputs : Handle(r, "none") /\ Unobserved

DailyHydrationUpdate ==
  \E r \in DailyHydrationInputs : Handle(r, "none") /\ Unobserved

DailySleepUpdate ==
  \E r \in DailySleepInputs : Handle(r, "none") /\ Unobserved

DailyFoodUpdate ==
  \E r \in DailyFoodInputs : Handle(r, "none") /\ Unobserved

\* a day passes without a request
NextDay ==
  /\ today < MaxDay
  /\ now' = now + HoursPerDay
  /\ UNCHANGED accountVars
  /\ UNCHANGED <<users, daily_logs, habits_config, resp, rawToday, paidCount,
                 lastReq, inflight, base, nreq, badges, rowsInserted, judged,
                 call>>

\* GET /api/habits/today and GET /api/auth/dashboard: the streak evaluation
\* is their only write
EvaluateStreak ==
  /\ users' = evaluateStreakIfNeeded(users, daily_logs, habits_config, today)
  /\ judged' = [d \in Dates |->
                  IF d \in JudgedDates(users, today)
                  THEN Min(MaxPaid, judged[d] + 1) ELSE judged[d]]
  /\ UNCHANGED accountVars
  /\ UNCHANGED <<now, daily_logs, habits_config, resp, rawToday, paidCount,
                 lastReq, inflight, base, nreq, badges, rowsInserted, call>>

\* the levels an evolution check is called with
EvolutionLevels == {4, 5, 10}

\* checkAndApplyEvolution(userId, previousLevel, newLevel), called on the
\* stored row
CheckAndApplyEvolution ==
  \E previousLevel \in EvolutionLevels, newLevel \in EvolutionLevels :
     LET e == EvolutionCall(users, badges, previousLevel, newLevel) IN
       /\ nreq < MaxRequests
       /\ nreq' = nreq + 1
       /\ users' = e.users
       /\ badges' = e.badges
       /\ call' = [fn |-> "checkAndApplyEvolution",
                   args |-> <<previousLevel, newLevel>>, out |-> e.outcome]
       /\ UNCHANGED accountVars
       /\ UNCHANGED <<now, daily_logs, habits_config, resp, rawToday,
                      paidCount, lastReq, inflight, base, rowsInserted,
                      judged>>

NextAll ==
  \/ DailyStepsUpdate
  \/ DailyMovementUpdate
  \/ DailyHydrationUpdate
  \/ DailySleepUpdate
  \/ DailyFoodUpdate
  \/ EvaluateStreak
  \/ CheckAndApplyEvolution
  \/ NextDay

SpecAll == InitOnboarded /\ [][NextAll]_vars

----------------------------------------------------------------------------
(* Two server processes on the same database file.  Within one process a
   handler runs to its end without yielding; two processes interleave at the
   statements of the store.  A handler reads today's row before it opens its
   transaction. *)

DailyInputs ==
  DailyStepsInputs \cup DailyMovementInputs \cup DailyHydrationInputs
  \cup DailySleepInputs \cup DailyFoodInputs

\* no update is in flight and none has been served concurrently
Quiet == \A p \in Procs : inflight[p].pc = "idle"

\* an update served alone, before the concurrent ones
EarlierUpdate ==
  /\ Quiet
  /\ \E r \in DailyInputs : Handle(r, "none") /\ Unobserved

\* the handler of process p up to db.transaction: the read of today's row,
\* the rule, the cap and the fields to write
ConcRead(p) ==
  /\ inflight[p].pc = "idle"
  /\ \E r \in DailyInputs :
       inflight' = [inflight EXCEPT ![p] =
          [pc |-> "read", req |-> r,
           plan |-> Plan(RuleFor(r, daily_logs, today, habits_config, now),
                         daily_logs, today)]]
  /\ base' = IF Quiet THEN <<[users |-> users, daily_logs |-> daily_logs]>>
             ELSE base
  /\ UNCHANGED accountVars
  /\ UNCHANGED <<now, users, daily_logs, habits_config, resp, rawToday,
                 paidCount, lastReq, nreq, badges, rowsInserted, judged, call>>

\* the transaction of process p, on the tables as they are by now
ConcCommit(p) ==
  /\ inflight[p].pc = "read"
  /\ LET plan == inflight[p].plan
         tx == Transaction(users, daily_logs, plan, "none")
     IN /\ users' = tx.users
        /\ daily_logs' = tx.daily_logs
        /\ rawToday' = IF tx.ok
                       THEN [rawToday EXCEPT ![today] = @ + plan.rawXpDelta]
                       ELSE rawToday
        /\ paidCount' = IF tx.ok THEN Counted(paidCount, plan) ELSE paidCount
        /\ rowsInserted' = Inserted(rowsInserted, tx, plan)
        /\ inflight' = [inflight EXCEPT ![p] =
              [pc |-> IF tx.ok THEN "done" ELSE "failed",
               req |-> @.req, plan |-> plan]]
  /\ UNCHANGED accountVars
  /\ UNCHANGED <<now, habits_config, resp, lastReq, base, nreq, badges,
                 judged, call>>

NextConc ==
  \/ EarlierUpdate
  \/ \E p \in Procs : ConcRead(p)
  \/ \E p \in Procs : ConcCommit(p)

SpecConc == InitOnboarded /\ [][NextConc]_vars

\* the tables after request r is served alone on the tables db
ServedAlone(db, r) ==
  LET plan == Plan(RuleFor(r, db.daily_logs, today, habits_config, now),
                   db.daily_logs, today)
      tx == Transaction(db.users, db.daily_logs, plan, "none")
  IN [users |-> tx.users, daily_logs |-> tx.daily_logs]

\* the tables after the requests r1 and r2 are served one after the other,
\* in either order
SerialOutcomes(db, r1, r2) ==
  {ServedAlone(ServedAlone(db, r1), r2), ServedAlone(ServedAlone(db, r2), r1)}

----------------------------------------------------------------------------
(* The functions of utils/xp.js called on their own *)

CapDayXpArgs == (0 - MaxOver)..(DAILY_XP_CAP + MaxOver)
CapDeltaArgs == (0 - MaxOver)..(DAILY_XP_CAP + MaxOver)

\* every threshold of the table and the number just below it
LevelXpArgs ==
  {WideAdd(LEVEL_THRESHOLDS[l], Wide(k)) : l \in 1..MaxLevel, k \in {-1, 0}}

\* one call of capDailyXp
CallCapDailyXp ==
  /\ call.fn = "none"
  /\ \E currentDayXp \in CapDayXpArgs, proposedDelta \in CapDeltaArgs :
       call' = [fn |-> "capDailyXp", args |-> <<currentDayXp, proposedDelta>>,
                out |-> capDailyXp(currentDayXp, proposedDelta)]
  /\ UNCHANGED accountVars
  /\ UNCHANGED <<now, users, daily_logs, habits_config, resp, rawToday,
                 paidCount, lastReq, inflight, base, nreq, badges,
                 rowsInserted, judged>>

\* calls of getLevelForXp, one after the other
CallGetLevelForXp ==
  /\ call.fn \in {"none", "getLevelForXp"}
  /\ \E xp \in LevelXpArgs :
       call' = [fn |-> "getLevelForXp", args |-> xp, out |-> getLevelForXpOf(xp)]
  /\ UNCHANGED accountVars
  /\ UNCHANGED <<now, users, daily_logs, habits_config, resp, rawToday,
                 paidCount, lastReq, inflight, base, nreq, badges,
                 rowsInserted, judged>>

\* one call of buildLevelThresholds
CallBuildLevelThresholds ==
  /\ call.fn = "none"
  /\ \E maxLevel \in 1..MaxLevel :
       call' = [fn |-> "buildLevelThresholds", args |-> maxLevel,
                out |-> buildLevelThresholds(maxLevel)]
  /\ UNCHANGED accountVars
  /\ UNCHANGED <<now, users, daily_logs, habits_config, resp, rawToday,
                 paidCount, lastReq, inflight, base, nreq, badges,
                 rowsInserted, judged>>

NextPure ==
  \/ CallCapDailyXp
  \/ CallGetLevelForXp
  \/ CallBuildLevelThresholds

SpecPure == InitOnboarded /\ [][NextPure]_vars

----------------------------------------------------------------------------
(* The streak evaluations of several days, each call recorded *)

\* the updates that complete three categories of a day
StreakInputs == {StepsReq("manual", 10000), MovementReq(1), HydrationReq(30)}

StreakDayUpdate ==
  \E r \in StreakInputs : Handle(r, "none") /\ Unobserved

\* the evaluation of GET /api/habits/today and GET /api/auth/dashboard; call
\* keeps the watermark the call has found, its date, and the dates its loop
\* has passed over
TracedEvaluateStreak ==
  /\ users' = evaluateStreakIfNeeded(users, daily_logs, habits_config, today)
  /\ judged' = [d \in Dates |->
                  IF d \in JudgedDates(users, today)
                  THEN Min(MaxPaid, judged[d] + 1) ELSE judged[d]]
  /\ call' = [fn |-> "evaluateStreakIfNeeded",
              args |-> <<users.streak_last_evaluated_date, today>>,
              out |-> JudgedDates(users, today)]
  /\ UNCHANGED accountVars
  /\ UNCHANGED <<now, daily_logs, habits_config, resp, rawToday, paidCount,
                 lastReq, inflight, base, nreq, badges, rowsInserted>>

\* a day passes without a request
StreakNextDay ==
  /\ today < MaxStreakDay
  /\ now' = now + HoursPerDay
  /\ UNCHANGED accountVars
  /\ UNCHANGED <<users, daily_logs, habits_config, resp, rawToday, paidCount,
                 lastReq, inflight, base, nreq, badges, rowsInserted, judged,
                 call>>

NextStreak ==
  \/ StreakDayUpdate
  \/ TracedEvaluateStreak
  \/ StreakNextDay

SpecStreak == InitOnboarded /\ [][NextStreak]_vars

----------------------------------------------------------------------------
(* The streak evaluations of an account in use: the ledger holds the rows *)
(* of the days lived so far, the streak counters what earlier evaluations  *)
(* have left                                                               *)

\* the requests that complete the five categories of the onboarded account;
\* a day of k completed categories has served the first k of them
CompletingRequests ==
  <<StepsReq("google_fit", 5000), MovementReq(1), HydrationReq(12),
    SleepReq(<<23, 0>>, <<6, 0>>), FoodReq("vegetables", 1)>>

\* how many categories a lived day has completed: none (no row), 1, 4 or 5
CompletedCounts == {0, 1, 4, 5}

\* the tables after the handlers have served reqs[1..k] on the date d
RECURSIVE ServedOn(_, _, _, _, _, _)
ServedOn(u, logs, cfg, d, reqs, k) ==
  IF k = 0 THEN [users |-> u, daily_logs |-> logs]
  ELSE LET before == ServedOn(u, logs, cfg, d, reqs, k - 1)
           plan == Plan(RuleFor(reqs[k], before.daily_logs, d, cfg,
                                d * HoursPerDay),
                        before.daily_logs, d)
           tx == Transaction(before.users, before.daily_logs, plan, "none")
       IN [users |-> tx.users, daily_logs |-> tx.daily_logs]

\* the tables after the days from d on have been lived as pattern says
RECURSIVE LivedDays(_, _, _, _, _)
LivedDays(u, logs, cfg, pattern, d) ==
  IF d \notin DOMAIN pattern THEN [users |-> u, daily_logs |-> logs]
  ELSE LET day == ServedOn(u, logs, cfg, d, CompletingRequests, pattern[d])
       IN LivedDays(day.users, day.daily_logs, cfg, pattern, d + 1)

\* the day on which the account is met: the days before it have been lived
LastLivedDay == MaxStreakDay - 1

\* what earlier evaluations have left in (current_streak, longest_streak,
\* streak_shields): nothing yet, a streak one day short of the first shield,
\* a streak one day short of a multiple of 7 with the shield banked, and a
\* streak below the longest
StreakStates == {<<0, 0, 0>>, <<6, 6, 0>>, <<13, 13, 1>>, <<2, 9, 0>>}

StartInUse(a, pattern, lastEval, st) ==
  LET lived == LivedDays(NewUser(a.xp, a.bmi), <<>>, a.cfg, pattern, 1) IN
  /\ now = LastLivedDay * HoursPerDay
  /\ users = [lived.users EXCEPT !.current_streak = st[1],
                                 !.longest_streak = st[2],
                                 !.streak_shields = st[3],
                                 !.streak_last_evaluated_date = lastEval]
  /\ habits_config = a.cfg
  /\ badges = {}
  /\ daily_logs = lived.daily_logs
  /\ resp = NoResp
  /\ rawToday = [d \in Dates |-> 0]
  /\ paidCount = [d \in Dates |-> [f \in OneShotFlags |-> 0]]
  /\ lastReq = [req |-> NoReq, date |-> 0, times |-> 0]
  /\ inflight = [p \in Procs |-> Idle]
  /\ base = <<>>
  /\ nreq = 0
  /\ rowsInserted = [d \in Dates |-> IF HasRow(lived.daily_logs, d) THEN 1 ELSE 0]
  /\ judged = [d \in Dates |-> 0]
  /\ call = NoCall
  /\ sessions = NoSessions
  /\ teams = {}
  /\ team_members = {}

\* an account that has never been evaluated has the counters of the schema;
\* one that has been evaluated has a watermark before the day it is met on
InitInUse ==
  \E a \in Onboarded, pattern \in [1..LastLivedDay -> CompletedCounts] :
     \/ StartInUse(a, pattern, NULL, <<0, 0, 0>>)
     \/ \E lastEval \in 0..(LastLivedDay - 1), st \in StreakStates :
          StartInUse(a, pattern, lastEval, st)

NextInUse ==
  \/ TracedEvaluateStreak
  \/ StreakNextDay

SpecInUse == InitInUse /\ [][NextInUse]_vars

----------------------------------------------------------------------------
(* evaluateStreakIfNeeded statement by statement: the SELECT and the early *)
(* returns, the passes of the while loop on the local counters, and the    *)
(* UPDATE after the loop.  inflight[1].plan holds the locals of the call.  *)

\* the users row after a pass that would store its counters
RowAfterPass_StoresEachDay(u, st) ==
  [u EXCEPT !.current_streak = st.currentStreak,
            !.longest_streak = st.longestStreak,
            !.streak_shields = st.shields]

\* the users row after a pass of the loop: the pass writes nothing
RowAfterPass(u, st) == u

\* a call ends: the record of the call and the dates it has passed over
CallEnds(lastEval, tdy, dates) ==
  /\ call' = [fn |-> "evaluateStreakIfNeeded", args |-> <<lastEval, tdy>>,
              out |-> dates]
  /\ judged' = [d \in Dates |->
                  IF d \in dates THEN Min(MaxPaid, judged[d] + 1) ELSE judged[d]]

\* lines 84-110: today, the SELECT, the first-call UPDATE, the early return,
\* and the locals of the loop
StreakCall ==
  LET lastEval == users.streak_last_evaluated_date IN
  /\ inflight[1].pc = "idle"
  /\ IF lastEval = NULL
     THEN /\ users' = [users EXCEPT !.streak_last_evaluated_date = today]
          /\ CallEnds(lastEval, today, {})
          /\ UNCHANGED inflight
     ELSE IF lastEval >= today
     THEN /\ CallEnds(lastEval, today, {})
          /\ UNCHANGED accountVars
          /\ UNCHANGED <<users, inflight>>
     ELSE /\ inflight' = [inflight EXCEPT ![1] =
               [pc |-> "loop", req |-> NoReq,
                plan |-> [today |-> today, lastEval |-> lastEval,
                          yesterday |-> addDays(today, -1),
                          evalDate |-> addDays(lastEval, 1),
                          st |-> [currentStreak |-> users.current_streak,
                                  longestStreak |-> users.longest_streak,
                                  shields |-> users.streak_shields]]]]
          /\ UNCHANGED accountVars
          /\ UNCHANGED <<users, call, judged>>
  /\ UNCHANGED accountVars
  /\ UNCHANGED <<now, daily_logs, habits_config, resp, rawToday, paidCount,
                 lastReq, base, nreq, badges, rowsInserted>>

\* lines 114-132: one pass of the while loop
StreakPass ==
  LET l == inflight[1].plan IN
  /\ inflight[1].pc = "loop"
  /\ l.evalDate <= l.yesterday
  /\ LET st == StreakDay(l.st, countCompletedCategories(daily_logs, habits_config,
                                                        l.evalDate))
     IN /\ inflight' = [inflight EXCEPT ![1].plan.st = st,
                                        ![1].plan.evalDate = addDays(l.evalDate, 1)]
        /\ users' = RowAfterPass(users, st)
  /\ UNCHANGED accountVars
  /\ UNCHANGED <<now, daily_logs, habits_config, resp, rawToday, paidCount,
                 lastReq, base, nreq, badges, rowsInserted, judged, call>>

\* lines 134-137: the UPDATE after the loop
StreakUpdate ==
  LET l == inflight[1].plan IN
  /\ inflight[1].pc = "loop"
  /\ l.evalDate > l.yesterday
  /\ users' = [users EXCEPT !.current_streak = l.st.currentStreak,
                            !.longest_streak = l.st.longestStreak,
                            !.streak_shields = l.st.shields,
                            !.streak_last_evaluated_date = l.today]
  /\ inflight' = [inflight EXCEPT ![1] = Idle]
  /\ CallEnds(l.lastEval, l.today, (l.lastEval + 1)..l.yesterday)
  /\ UNCHANGED accountVars
  /\ UNCHANGED <<now, daily_logs, habits_config, resp, rawToday, paidCount,
                 lastReq, base, nreq, badges, rowsInserted>>

NextPasses ==
  \/ StreakCall
  \/ StreakPass
  \/ StreakUpdate
  \/ StreakNextDay

SpecPasses == InitInUse /\ [][NextPasses]_vars

----------------------------------------------------------------------------
(* One day followed hour by hour: steps, hydration and sleep updates with *)
(* the responses observed                                                 *)

\* manual counts 600 apart, and a Google Fit count between them
TrackedStepsInputs ==
  {StepsReq("manual", 600), StepsReq("manual", 1200), StepsReq("manual", 1800),
   StepsReq("google_fit", 1000)}
TrackedHydrationInputs == {HydrationReq(g) : g \in {3, 5}}
\* nights of 420, 417 and 416 minutes, and one of 23 h 59 min
TrackedSleepInputs ==
  {SleepReq(<<23, 0>>, <<6, 0>>), SleepReq(<<23, 3>>, <<6, 0>>),
   SleepReq(<<23, 4>>, <<6, 0>>), SleepReq(<<6, 0>>, <<5, 59>>)}

TrackedStepsUpdate ==
  \E r \in TrackedStepsInputs : Handle(r, "none") /\ Observed(r, "none")

TrackedHydrationUpdate ==
  \E r \in TrackedHydrationInputs : Handle(r, "none") /\ Observed(r, "none")

TrackedSleepUpdate ==
  \E r \in TrackedSleepInputs : Handle(r, "none") /\ Observed(r, "none")

\* an hour passes
Hour ==
  /\ now < MaxClock
  /\ now' = now + 1
  /\ UNCHANGED accountVars
  /\ UNCHANGED <<users, daily_logs, habits_config, resp, rawToday, paidCount,
                 lastReq, inflight, base, nreq, badges, rowsInserted, judged,
                 call>>

NextTracked ==
  \/ TrackedStepsUpdate
  \/ TrackedHydrationUpdate
  \/ TrackedSleepUpdate
  \/ Hour

SpecTracked == Init /\ [][NextTracked]_vars

----------------------------------------------------------------------------
(* Claims on the serial runs *)

\* C1: for every date, after any sequence of category updates applied one at
\* a time, xp_earned of the ledger row is an integer in 0..150.
C1_DailyCapNeverExceeded ==
  \A d \in DOMAIN daily_logs : daily_logs[d].xp_earned \in 0..DAILY_XP_CAP

\* the cap has clamped: the day has triggered more raw XP than the cap
C1_Witness ==
  \E d \in DOMAIN daily_logs :
    daily_logs[d].xp_earned = DAILY_XP_CAP /\ rawToday[d] > DAILY_XP_CAP

\* the value of an integer column of the row of date d, 0 without a row
Stored(logs, d, col) == IF HasRow(logs, d) THEN logs[d][col] ELSE 0

\* C5: once a one-shot award flag of a ledger row is 1 it stays 1 under every
\* later update of that day, and hydration_xp_glasses never decreases.
C5_AwardStateMovesForward ==
  [][\A d \in DOMAIN daily_logs :
       /\ d \in DOMAIN daily_logs'
       /\ \A f \in OneShotFlags :
            daily_logs[d][f] = 1 => daily_logs'[d][f] = 1
       /\ daily_logs'[d].hydration_xp_glasses >= daily_logs[d].hydration_xp_glasses
    ]_vars

\* fewer glasses than the mark: the goal flag and the mark have stayed
C5_Witness ==
  \E d \in DOMAIN daily_logs :
    /\ daily_logs[d].hydration_goal_xp_awarded = 1
    /\ daily_logs[d].hydration_glasses < daily_logs[d].hydration_xp_glasses

\* C7: in every state reached from a new account by committed category
\* updates, the stored level is the highest level whose threshold is at most
\* xp_total, which is what getLevelForXp(xp_total) returns.
C7_LevelMatchesXpTotal ==
  LET l == users.level
      xp == users.xp_total
  IN /\ l \in 1..MaxLevel
     /\ WideLeq(LEVEL_THRESHOLDS[l], Wide(xp))
     /\ l < MaxLevel => WideLess(Wide(xp), LEVEL_THRESHOLDS[l + 1])
     /\ l = getLevelForXp(xp)

\* an update has taken the account over the threshold of level 2
C7_Witness == users.level = 2 /\ users.xp_total >= 500 /\ nreq > 0

\* the XP of the one-shot awards, by flag (20 for a goal of 5000 steps, 40
\* for another goal)
AwardXp(f) ==
  CASE f = "steps_goal_xp_awarded" ->
         (IF Goal(habits_config, "daily_steps", 10000) = 5000 THEN 20 ELSE 40)
    [] f = "hydration_goal_xp_awarded" -> 20
    [] f = "sleep_xp_start_awarded" -> 5
    [] f = "sleep_xp_end_awarded" -> 5
    [] f = "sleep_goal_xp_awarded" -> 15
    [] f = "movement_xp_awarded" -> 15
    [] f = "food_veg_xp_awarded" -> 10
    [] f = "food_nojunk_xp_awarded" -> 10
    [] f = "food_breakfast_xp_awarded" -> 5

\* the flags of date d that the step sets, and the XP they stand for, with 5
\* XP for every glass the step adds to the mark
RaisedFlags(d) ==
  {f \in OneShotFlags :
     Stored(daily_logs, d, f) = 0 /\ Stored(daily_logs', d, f) = 1}

RaisedXp(d) ==
  SumOver([f \in OneShotFlags |-> AwardXp(f)], RaisedFlags(d))
  + 5 * (Stored(daily_logs', d, "hydration_xp_glasses")
         - Stored(daily_logs, d, "hydration_xp_glasses"))

EarnedBy(d) == Stored(daily_logs', d, "xp_earned") - Stored(daily_logs, d, "xp_earned")

\* C8 as claimed: an update that sets a one-shot flag or raises the mark
\* increases xp_earned of the date and xp_total by the full XP of the awards.
C8_FlagMeansFullXpPaid ==
  [][\A d \in Dates :
       RaisedXp(d) > 0 =>
         /\ EarnedBy(d) >= RaisedXp(d)
         /\ users'.xp_total - users.xp_total >= RaisedXp(d)
    ]_vars

\* C8 amended: an update that sets a one-shot flag or raises the mark
\* increases xp_earned of the date and xp_total by one and the same amount,
\* which is at least the full XP of the awards or else all that the daily cap
\* of 150 leaves.
C8_FlagMeansXpPaidUpToCap ==
  [][\A d \in Dates :
       RaisedXp(d) > 0 =>
         /\ EarnedBy(d) = users'.xp_total - users.xp_total
         /\ EarnedBy(d) >= Min(RaisedXp(d),
                               DAILY_XP_CAP - Stored(daily_logs, d, "xp_earned"))
    ]_vars

\* a flag is set although the cap has left less than the XP of its award
C8_Witness ==
  \E d \in DOMAIN daily_logs :
    /\ daily_logs[d].movement_xp_awarded = 1
    /\ daily_logs[d].xp_earned = DAILY_XP_CAP
    /\ rawToday[d] > DAILY_XP_CAP

\* C9: the XP applied by an update is capDailyXp(xp_earned before, sum of the
\* raw awards of the update), so that over a day xp_earned is
\* min(150, total raw XP triggered that day).
C9_CapAppliedToSum ==
  [][\A d \in Dates :
       /\ EarnedBy(d) = capDailyXp(Stored(daily_logs, d, "xp_earned"),
                                   rawToday'[d] - rawToday[d])
       /\ Stored(daily_logs', d, "xp_earned") = Min(DAILY_XP_CAP, rawToday'[d])
    ]_vars

\* one update has summed three awards (sleep start, end and goal)
C9_Witness ==
  \E d \in DOMAIN daily_logs :
    /\ nreq = 1
    /\ daily_logs[d].sleep_goal_xp_awarded = 1
    /\ rawToday[d] = 2 * SLEEP_LOG_XP + SLEEP_GOAL_BONUS_XP
    /\ daily_logs[d].xp_earned = rawToday[d]

----------------------------------------------------------------------------
(* Claims on the serial runs with the responses observed *)

\* C3: each one-shot award contributes raw XP at most once per date over any
\* sequence of updates of that day (check, uncheck, check again included):
\* once its flag is set, every later submission yields a raw delta of 0 for
\* that award.
C3_OneShotPaidOnce ==
  /\ \A d \in Dates, f \in OneShotFlags : paidCount[d][f] <= 1
  /\ \A r \in AllInputs :
       LET rule == RuleFor(r, daily_logs, today, habits_config, now) IN
       \A f \in DOMAIN rule.paid :
         Stored(daily_logs, today, f) = 1 => rule.paid[f] = 0

\* the vegetables box checked again after its award: three requests that
\* have triggered 10 raw XP in all, the last one a check of the box that
\* paid nothing although the cap is far
C3_Witness ==
  /\ nreq = 3
  /\ lastReq.req = FoodReq("vegetables", 1)
  /\ resp = [status |-> 200, xpAwarded |-> 0]
  /\ HasRow(daily_logs, today)
  /\ daily_logs[today].food_veg_xp_awarded = 1
  /\ paidCount[today]["food_veg_xp_awarded"] = 1
  /\ rawToday[today] = 10
  /\ daily_logs[today].xp_earned = 10

\* C4: the identical category update submitted twice in a row for the same
\* date is a no-op the second time: xp_total, level, xp_earned, every award
\* flag and every raw ledger value are unchanged, and the call succeeds with
\* xpAwarded = 0.
C4_DuplicateIsNoOp ==
  [][lastReq'.times >= 2 /\ nreq' = nreq + 1 =>
       /\ users' = users
       /\ daily_logs' = daily_logs
       /\ resp' = [status |-> 200, xpAwarded |-> 0]
    ]_vars

\* the same manual step count twice in a row, the first of which had earned
\* the step bonus and the goal award
C4_Witness ==
  /\ lastReq.times = 2
  /\ lastReq.req = StepsReq("manual", 10000)
  /\ HasRow(daily_logs, today)
  /\ daily_logs[today].steps_last_bonus_at # NULL
  /\ daily_logs[today].steps_goal_xp_awarded = 1

----------------------------------------------------------------------------
(* Claims on the runs with a failing store *)

\* C10: an update whose transaction fails leaves no partial state: the users
\* row and the ledger rows are what they were before the request.
C10_FailedUpdateLeavesNoTrace ==
  [][nreq' = nreq + 1 /\ resp'.status = 500 =>
       /\ users' = users
       /\ daily_logs' = daily_logs
    ]_vars

\* a hydration update worth XP has failed at the users update, after an
\* update of the same day had gone through
C10_Witness ==
  /\ resp.status = 500
  /\ lastReq.req = HydrationReq(30)
  /\ HasRow(daily_logs, today)
  /\ daily_logs[today].hydration_xp_glasses = 0
  /\ daily_logs[today].hydration_goal_xp_awarded = 0
  /\ daily_logs[today].xp_earned > 0
  /\ daily_logs[today].xp_earned < DAILY_XP_CAP

----------------------------------------------------------------------------
(* Claims on the runs over several days *)

\* C6: xp_total never decreases: no category update (lowering a value and
\* unchecking a completed item included), no streak evaluation and no
\* evolution check reduces the user's xp_total.
C6_XpTotalNeverDecreases ==
  [][users'.xp_total >= users.xp_total]_vars

\* all three kinds of operation have acted: the movement routine earned its
\* XP yesterday and was then reported not done, an evolution check has been
\* called for the step from level 4 to level 5, and today's streak
\* evaluation has run
C6_Witness ==
  /\ users.streak_last_evaluated_date = today
  /\ today >= 2
  /\ call.fn = "checkAndApplyEvolution"
  /\ call.args = <<4, 5>>
  /\ HasRow(daily_logs, today - 1)
  /\ daily_logs[today - 1].movement_done = 0
  /\ daily_logs[today - 1].movement_xp_awarded = 1
  /\ users.xp_total = 450 + MOVEMENT_XP

----------------------------------------------------------------------------
(* Claims on the runs of two processes *)

\* C2: when two category updates of the same user and date run concurrently
\* (reads, computations and commits interleaved), the outcome equals that of
\* some serial order of the two requests: xp_earned never exceeds 150 and no
\* one-shot award is paid twice.
C2_ConcurrentEqualsSerial ==
  (\A p \in Procs : inflight[p].pc \in {"done", "failed"}) =>
     /\ [users |-> users, daily_logs |-> daily_logs]
          \in SerialOutcomes(base[1], inflight[1].req, inflight[2].req)
     /\ \A d \in DOMAIN daily_logs : daily_logs[d].xp_earned <= DAILY_XP_CAP
     /\ \A d \in Dates, f \in OneShotFlags : paidCount[d][f] <= 1

\* two updates of the movement routine have both read today's row before
\* either has committed, and both have committed
C2_Witness ==
  /\ \A p \in Procs : inflight[p].pc = "done"
  /\ \A p \in Procs : inflight[p].req = MovementReq(1)
  /\ \A p \in Procs : inflight[p].plan.existing
  /\ \A p \in Procs : inflight[p].plan.xpDelta = MOVEMENT_XP

----------------------------------------------------------------------------
(* Claims on the functions of utils/xp.js *)

\* C11: capDailyXp(currentDayXp, rawDelta) is 0 when rawDelta <= 0 and
\* otherwise min(rawDelta, max(0, 150 - currentDayXp)); the result always lies
\* in 0..max(0, 150 - currentDayXp); (145, 10) gives 5, (150, 10) gives 0 and
\* (100, -5) gives 0.
C11_CapDailyXpValue ==
  call.fn = "capDailyXp" =>
    LET currentDayXp == call.args[1]
        rawDelta == call.args[2]
        room == IF 150 - currentDayXp > 0 THEN 150 - currentDayXp ELSE 0
    IN /\ rawDelta <= 0 => call.out = 0
       /\ rawDelta > 0 => call.out = (IF rawDelta < room THEN rawDelta ELSE room)
       /\ call.out >= 0 /\ call.out <= room
       /\ call.args = <<145, 10>> => call.out = 5
       /\ call.args = <<150, 10>> => call.out = 0
       /\ call.args = <<100, -5>> => call.out = 0

\* the call with 5 XP left under the cap and 10 XP proposed
C11_Witness ==
  call = [fn |-> "capDailyXp", args |-> <<145, 10>>, out |-> 5]

\* C12: for xp >= 0, getLevelForXp(xp) is the highest level L in 1..100 whose
\* threshold is at most xp; it is monotonically non-decreasing in xp; it
\* returns 1 for 0, 2 for 500, 2 for 1199 and 3 for 1200.
C12_LevelForXpValue ==
  [][call'.fn = "getLevelForXp" =>
       LET xp == call'.args
           level == call'.out
       IN /\ level \in 1..100
          /\ WideLeq(Wide(0), xp) =>
               /\ WideLeq(LEVEL_THRESHOLDS[level], xp)
               /\ \A l \in 1..100 : WideLeq(LEVEL_THRESHOLDS[l], xp) => l <= level
          /\ xp = Wide(0) => level = 1
          /\ xp = Wide(500) => level = 2
          /\ xp = Wide(1199) => level = 2
          /\ xp = Wide(1200) => level = 3
          /\ call.fn = "getLevelForXp" /\ WideLeq(call.args, xp) =>
               call.out <= level
    ]_vars

\* the call with one XP less than the threshold of level 3
C12_Witness ==
  call = [fn |-> "getLevelForXp", args |-> Wide(1199), out |-> 2]

\* differences and small multiples of numbers kept in two limbs
WideSub(x, y) ==
  <<x[1] - y[1] + ((x[2] - y[2]) \div Limb), (x[2] - y[2]) % Limb>>
WideTimes(x, k) == <<x[1] * k + ((x[2] * k) \div Limb), (x[2] * k) % Limb>>

\* inc = round(1.2 * prev), halves rounded up: 0 <= 12 prev + 5 - 10 inc < 10
IsRoundOfSixFifths(inc, prev) ==
  LET d == WideSub(WideAdd(WideTimes(prev, 12), Wide(5)), WideTimes(inc, 10))
  IN WideLeq(Wide(0), d) /\ WideLess(d, Wide(10))

\* C13: the table has threshold 0 for level 1, 500 for level 2 and 1200 for
\* level 3; every later threshold is the previous one plus
\* round(previous increment * 1.2), the first increment being 700; the table
\* is strictly increasing over all 100 levels.
C13_ThresholdTable ==
  call.fn = "buildLevelThresholds" =>
    LET t == call.out
        n == Len(t)
    IN /\ n = (IF call.args > 3 THEN call.args ELSE 3)
       /\ t[1] = Wide(0) /\ t[2] = Wide(500) /\ t[3] = Wide(1200)
       /\ \A l \in 4..n :
            IsRoundOfSixFifths(WideSub(t[l], t[l - 1]), WideSub(t[l - 1], t[l - 2]))
       /\ \A l \in 2..n : WideLess(t[l - 1], t[l])
       /\ call.args = 100 => t = LEVEL_THRESHOLDS /\ n = 100

\* the table of all 100 levels: 2040 XP for level 4, 201,275,907,531 XP for
\* level 100
C13_Witness ==
  /\ call.fn = "buildLevelThresholds"
  /\ call.args = 100
  /\ Len(call.out) = 100
  /\ call.out[4] = Wide(2040)
  /\ call.out[100] = <<201275, 907531>>

----------------------------------------------------------------------------
(* Claims on the rules of the categories *)

\* a handler of the category has served the request lastReq'.req in this step
Served(cat) == nreq' = nreq + 1 /\ lastReq'.req.cat = cat

\* the raw XP of the update served in this step
RawXpOfStep == rawToday'[today] - rawToday[today]

\* C14: hydration pays 5 XP per glass above the stored high-water mark: with
\* g glasses requested the raw per-glass XP is 5 * max(0, g - mark) and the
\* mark becomes max(mark, g).  Requests of 3, 5 and 3 glasses pay for 3
\* glasses, then 2, then none.
C14_GlassesAboveMarkPaid ==
  [][Served("hydration") =>
       LET g == lastReq'.req.value
           mark == Col(daily_logs, today, "hydration_xp_glasses", 0)
           goalXp == IF Col(daily_logs, today, "hydration_goal_xp_awarded", 0) = 0
                        /\ daily_logs'[today].hydration_goal_xp_awarded = 1
                     THEN HYDRATION_GOAL_BONUS_XP ELSE 0
       IN /\ RawXpOfStep - goalXp = 5 * Max(0, g - mark)
          /\ daily_logs'[today].hydration_xp_glasses = Max(mark, g)
          /\ (mark = 0 /\ g = 3) => RawXpOfStep = 15
          /\ (mark = 3 /\ g = 5) => RawXpOfStep = 10
          /\ (mark = 5 /\ g = 3) => RawXpOfStep = 0 /\ resp'.xpAwarded = 0]_vars

\* 3, 5 and 3 glasses have been reported on one day: 25 XP for 5 glasses
C14_Witness ==
  /\ nreq = 3
  /\ lastReq.req = HydrationReq(3)
  /\ HasRow(daily_logs, today)
  /\ daily_logs[today].hydration_glasses = 3
  /\ daily_logs[today].hydration_xp_glasses = 5
  /\ rawToday[today] = 25
  /\ daily_logs[today].xp_earned = 25
  /\ resp.xpAwarded = 0

\* the time of the latest step bonus of the user over all dates, NULL if none
LastBonusAt(logs) ==
  LET times == {logs[d].steps_last_bonus_at : d \in DOMAIN logs} \ {NULL}
  IN IF times = {} THEN NULL ELSE CHOOSE t \in times : \A o \in times : o <= t

\* the raw XP of the steps update served in this step without its goal award
StepBonusOfStep ==
  LET goalXp == IF Goal(habits_config, "daily_steps", 10000) = 5000
                THEN 20 ELSE 40
  IN IF Col(daily_logs, today, "steps_goal_xp_awarded", 0) = 0
        /\ daily_logs'[today].steps_goal_xp_awarded = 1
     THEN RawXpOfStep - goalXp ELSE RawXpOfStep

\* C15: the +5 manual-step bonus is paid for a manual update only if the
\* manual count rises by at least 500 over the previously stored manual value
\* and at least 2 hours have passed since the last bonus.
C15_BonusNeedsRiseAndCooldown ==
  [][(Served("steps") /\ StepBonusOfStep = STEP_BONUS_XP) =>
       /\ lastReq'.req.source = "manual"
       /\ lastReq'.req.value - Col(daily_logs, today, "steps_manual", 0)
            >= STEP_BONUS_INCREMENT
       /\ LastBonusAt(daily_logs) # NULL =>
            now - LastBonusAt(daily_logs) >= TWO_HOURS]_vars

\* two bonuses have been paid less than 2 hours apart, on either side of
\* midnight
C15_Witness ==
  \E d1, d2 \in DOMAIN daily_logs :
     /\ d1 < d2
     /\ daily_logs[d1].steps_last_bonus_at # NULL
     /\ daily_logs[d2].steps_last_bonus_at # NULL
     /\ daily_logs[d2].steps_last_bonus_at - daily_logs[d1].steps_last_bonus_at
          < TWO_HOURS
     /\ rawToday[d1] >= STEP_BONUS_XP /\ rawToday[d2] >= STEP_BONUS_XP

\* a source that has never reported counts as 0
Reported(v) == IF v = NULL THEN 0 ELSE v

\* C16: after any sequence of step updates from the manual and google_fit
\* sources the steps of the ledger row are max(steps_manual,
\* steps_google_fit), a source that has never reported counting as 0, and an
\* update from one source leaves the stored value of the other source as it
\* was.
C16_StepsAreMaxOfSources ==
  [][/\ \A d \in DOMAIN daily_logs' :
          LET row == daily_logs'[d] IN
          IF row.steps_manual = NULL /\ row.steps_google_fit = NULL
          THEN row.steps = NULL
          ELSE row.steps = Max(Reported(row.steps_manual),
                               Reported(row.steps_google_fit))
     /\ Served("steps") =>
          LET other == IF lastReq'.req.source = "manual"
                       THEN "steps_google_fit" ELSE "steps_manual"
              own == IF lastReq'.req.source = "manual"
                     THEN "steps_manual" ELSE "steps_google_fit"
          IN /\ daily_logs'[today][other] = Col(daily_logs, today, other, NULL)
             /\ daily_logs'[today][own] = lastReq'.req.value
     /\ ~Served("steps") =>
          \A d \in DOMAIN daily_logs :
             /\ daily_logs'[d].steps_manual = daily_logs[d].steps_manual
             /\ daily_logs'[d].steps_google_fit = daily_logs[d].steps_google_fit]_vars

\* a manual count of 600 reported after a Google Fit count of 1000: the steps
\* stay 1000 and both counts are stored
C16_Witness ==
  /\ lastReq.req = StepsReq("manual", 600)
  /\ HasRow(daily_logs, today)
  /\ daily_logs[today].steps_manual = 600
  /\ daily_logs[today].steps_google_fit = 1000
  /\ daily_logs[today].steps = 1000

\* end - start in minutes, modulo 24 hours
DurationMinutes(sleepStart, sleepEnd) ==
  (Minutes(sleepEnd) - Minutes(sleepStart)) % (HoursPerDay * 60)

\* C17: the 15 XP sleep-goal award is made only when the recorded sleep
\* duration is at least 7 hours (420 minutes), the duration being end - start
\* in minutes, taken modulo 24 hours when end is earlier than start.
C17_GoalAwardNeeds420Minutes ==
  [][(/\ Served("sleep")
      /\ Col(daily_logs, today, "sleep_goal_xp_awarded", 0) = 0
      /\ daily_logs'[today].sleep_goal_xp_awarded = 1) =>
       DurationMinutes(daily_logs'[today].sleep_start,
                       daily_logs'[today].sleep_end) >= 420]_vars

\* the first update of a day reports a night from 23:03 to 06:00, 417
\* minutes: 7.0 hours are recorded and the goal award is made with the two
\* awards for logging
C17_Witness ==
  /\ nreq = 1
  /\ lastReq.req = SleepReq(<<23, 3>>, <<6, 0>>)
  /\ HasRow(daily_logs, today)
  /\ daily_logs[today].sleep_hours = SLEEP_GOAL_TENTHS
  /\ daily_logs[today].sleep_goal_xp_awarded = 1
  /\ resp.xpAwarded = SLEEP_LOG_XP + SLEEP_LOG_XP + SLEEP_GOAL_BONUS_XP

----------------------------------------------------------------------------
(* Claims on the ledger rows and on the streak evaluation *)

\* C18: in every reachable state there is at most one ledger row per (user,
\* date): the row is created by the first category update for the date, and
\* every later update of the date modifies that row instead of inserting
\* another.
C18_OneRowPerDate ==
  [][/\ \A d \in Dates :
          /\ rowsInserted'[d] <= 1
          /\ HasRow(daily_logs', d) <=> rowsInserted'[d] = 1
     /\ nreq' = nreq + 1 =>
          /\ resp'.status = 200
          /\ HasRow(daily_logs', today)
          /\ \A d \in Dates \ {today} : rowsInserted'[d] = rowsInserted[d]
          /\ rowsInserted'[today] =
               IF HasRow(daily_logs, today) THEN rowsInserted[today] ELSE 1]_vars

\* two updates have been served on one date, the first has inserted the row
\* of the date and the second has updated it
C18_Witness ==
  /\ nreq = 2
  /\ DOMAIN daily_logs = {today}
  /\ lastReq.date = today
  /\ rowsInserted[today] = 1
  /\ resp.status = 200

\* C19: no ended calendar day is skipped by the streak evaluation: over calls
\* of evaluateStreakIfNeeded with non-decreasing dates, every date from the
\* date of the first call up to the day before the date of the latest call
\* has been judged by the 3-of-5 rule; a user who triggers the evaluation on
\* the consecutive days D and D+1 and has completed at least 3 categories on
\* D has current_streak incremented for D.  (The watermark is the date of the
\* call before this one.)
C19_NoEndedDaySkipped ==
  [][(/\ call'.fn = "evaluateStreakIfNeeded"
      /\ call' # call
      /\ users.streak_last_evaluated_date # NULL
      /\ users.streak_last_evaluated_date < today) =>
       LET D == users.streak_last_evaluated_date IN
       /\ \A d \in D..addDays(today, -1) : judged'[d] >= 1
       /\ (/\ today = addDays(D, 1)
           /\ countCompletedCategories(daily_logs, habits_config, D)
                >= STREAK_THRESHOLD) =>
            users'.current_streak = users.current_streak + 1]_vars

\* the evaluation has been called on day 0 and on day 1, three categories of
\* day 0 are complete, and day 0 has not been judged: the streak is still 0
C19_Witness ==
  /\ call.fn = "evaluateStreakIfNeeded"
  /\ call.args = <<0, 1>>
  /\ call.out = {}
  /\ countCompletedCategories(daily_logs, habits_config, 0) >= STREAK_THRESHOLD
  /\ judged[0] = 0
  /\ users.current_streak = 0
  /\ users.streak_last_evaluated_date = 1

\* C20: no calendar day is judged more than once: over any sequence of
\* evaluateStreakIfNeeded calls the sets of dates that different calls pass
\* over are disjoint (every judged date lies before the watermark, and a call
\* judges only dates after it), so the completion count of one day increments
\* the streak, resets it or consumes a shield at most once.
C20_NoDayJudgedTwice ==
  \A d \in Dates :
     /\ judged[d] <= 1
     /\ judged[d] = 1 =>
          /\ users.streak_last_evaluated_date # NULL
          /\ d < users.streak_last_evaluated_date
     /\ (call.fn = "evaluateStreakIfNeeded" /\ d \in call.out) =>
          /\ judged[d] = 1
          /\ call.args[1] < d /\ d < call.args[2]

\* calls on day 0, day 2 and day 4: the second has judged day 1, the third
\* day 3, and a streak of 1 rests on the three categories completed on day 3
C20_Witness ==
  /\ call.fn = "evaluateStreakIfNeeded"
  /\ call.args = <<2, 4>>
  /\ call.out = {3}
  /\ judged[1] = 1 /\ judged[3] = 1
  /\ judged[0] = 0 /\ judged[2] = 0
  /\ users.current_streak = 1

\* an evaluation has been called in this step (the other steps of the runs
\* of an account in use are the days passing)
Evaluated == call'.fn = "evaluateStreakIfNeeded" /\ now' = now

\* the counters of the users row
Counters(u) ==
  [current |-> u.current_streak, longest |-> u.longest_streak,
   shields |-> u.streak_shields]

\* the rule of one day on the counters c, for a day of completed categories
DayRule(c, completed) ==
  LET streak == IF completed >= 3 THEN c.current + 1
                ELSE IF c.shields > 0 THEN c.current ELSE 0
      shields == IF completed >= 3
                 THEN (IF streak % 7 = 0 /\ c.shields < 1
                       THEN c.shields + 1 ELSE c.shields)
                 ELSE (IF c.shields > 0 THEN c.shields - 1 ELSE c.shields)
  IN [current |-> streak, longest |-> Max(c.longest, streak), shields |-> shields]

\* the rule folded over the dates from..to in chronological order
RECURSIVE FoldDays(_, _, _)
FoldDays(c, from, to) ==
  IF from > to THEN c
  ELSE DayRule(FoldDays(c, from, to - 1),
               countCompletedCategories(daily_logs, habits_config, to))

C23_SecondCallSameDayNoChange ==
  [][(/\ Evaluated
      /\ call.fn = "evaluateStreakIfNeeded"
      /\ call.args[2] = today) =>
       /\ users' = users
       /\ users.streak_last_evaluated_date >= today
       /\ call'.out = {}
       /\ judged' = judged]_vars

\* day 2 has been judged by a first call on day 3 (the streak is 7, with a
\* shield), and a second call on day 3 has found the watermark at day 3
C23_Witness ==
  /\ call.fn = "evaluateStreakIfNeeded"
  /\ call.args = <<3, 3>>
  /\ call.out = {}
  /\ judged[2] = 1
  /\ users.current_streak = 7
  /\ users.streak_shields = 1
  /\ users.streak_last_evaluated_date = 3

\* C24: the first streak evaluation of a user (watermark unset) only sets
\* the watermark to today: current_streak, longest_streak and streak_shields
\* keep their values and no day is judged.
C24_FirstCallOnlySetsWatermark ==
  [][(Evaluated /\ users.streak_last_evaluated_date = NULL) =>
       /\ users' = [users EXCEPT !.streak_last_evaluated_date = today]
       /\ call'.out = {}
       /\ judged' = judged]_vars

\* the first call, on day 3, of an account whose day 1 has at least 3
\* completed categories: the watermark is day 3 and the counters are 0
C24_Witness ==
  /\ call.fn = "evaluateStreakIfNeeded"
  /\ call.args = <<NULL, 3>>
  /\ call.out = {}
  /\ countCompletedCategories(daily_logs, habits_config, 1) >= 3
  /\ users.streak_last_evaluated_date = 3
  /\ users.current_streak = 0
  /\ users.longest_streak = 0
  /\ users.streak_shields = 0
  /\ \A d \in Dates : judged[d] = 0

\* the largest current_streak among the counters c and the values the rule
\* gives day by day over the dates from..to
RECURSIVE PeakStreak(_, _, _)
PeakStreak(c, from, to) ==
  IF from > to THEN c.current
  ELSE Max(PeakStreak(c, from, to - 1), FoldDays(c, from, to).current)

\* C25: longest_streak is the largest value current_streak has ever taken,
\* the values of the single days inside a backfill of several days included
\* (every evaluation raises it to the largest value of the days it judges);
\* so longest_streak >= current_streak in every persisted state.
C25_LongestIsPeakOfCurrent ==
  [][/\ users.longest_streak >= users.current_streak
     /\ users'.longest_streak >= users'.current_streak
     /\ Evaluated =>
          users'.longest_streak =
            Max(users.longest_streak,
                IF users.streak_last_evaluated_date = NULL THEN 0
                ELSE PeakStreak(Counters(users),
                                users.streak_last_evaluated_date + 1,
                                today - 1))]_vars

\* a call on day 3 has judged day 1, completed, and day 2, missed: the streak
\* went from 0 to 1 and back to 0, and longest_streak keeps the 1
C25_Witness ==
  /\ call.fn = "evaluateStreakIfNeeded"
  /\ call.args = <<0, 3>>
  /\ call.out = {1, 2}
  /\ countCompletedCategories(daily_logs, habits_config, 1) >= 3
  /\ countCompletedCategories(daily_logs, habits_config, 2) < 3
  /\ users.current_streak = 0
  /\ users.longest_streak = 1

StoredStreak(u) ==
  <<u.current_streak, u.longest_streak, u.streak_shields,
    u.streak_last_evaluated_date>>

\* C27: a backfill over several days is committed as one atomic update: the
\* persisted current_streak, longest_streak, streak_shields and watermark
\* change at most once per evaluateStreakIfNeeded call (in the statement
\* that ends the call, and then to the result of the whole backfill), and no
\* intermediate value of a single day is ever visible in the stored users
\* row.
C27_BackfillStoredOnce ==
  [][/\ StoredStreak(users') # StoredStreak(users) =>
          /\ inflight'[1].pc = "idle"
          /\ call' # call
          /\ users' = evaluateStreakIfNeeded(users, daily_logs, habits_config,
                                             call'.args[2])
     /\ (inflight[1].pc = "loop" /\ inflight'[1].pc = "loop") =>
          users' = users]_vars

\* one call on day 4 has judged days 1, 2 and 3 with 4, 1 and 5 completed
\* categories and has stored the streak 1: the 0 after day 2 was never stored
C27_Witness ==
  /\ inflight[1].pc = "idle"
  /\ call.fn = "evaluateStreakIfNeeded"
  /\ call.args = <<0, 4>>
  /\ call.out = {1, 2, 3}
  /\ countCompletedCategories(daily_logs, habits_config, 1) = 4
  /\ countCompletedCategories(daily_logs, habits_config, 2) = 1
  /\ countCompletedCategories(daily_logs, habits_config, 3) = 5
  /\ StoredStreak(users) = <<1, 1, 0, 4>>

----------------------------------------------------------------------------
(* Accounts at the thresholds of level 5 and level 10: the category updates
   that take them across, and the calls of checkAndApplyEvolution *)

\* the threshold of a level as an integer of the database
ThresholdOf(level) ==
  LEVEL_THRESHOLDS[level][1] * Limb + LEVEL_THRESHOLDS[level][2]

\* accounts one movement routine short of level 5 and of level 10.  No
\* statement of the handlers writes mascot_id, so each still has the starter
\* mascot of onboarding step 2; the habits routes ask for a session only, so
\* an account without BMI category earns XP as well.
AccountsAtThreshold ==
  {[xp |-> ThresholdOf(EVOLUTION_LEVEL_5) - MOVEMENT_XP, bmi |-> "overweight",
    cfg |-> <<[daily_steps |-> 5000, hydration_glasses |-> 12]>>],
   [xp |-> ThresholdOf(EVOLUTION_LEVEL_10) - MOVEMENT_XP, bmi |-> "normal",
    cfg |-> <<[daily_steps |-> 5000, hydration_glasses |-> 12]>>],
   [xp |-> ThresholdOf(EVOLUTION_LEVEL_5) - MOVEMENT_XP, bmi |-> "", cfg |-> <<>>]}

InitAtThreshold == \E a \in AccountsAtThreshold : Start(a)

ThresholdMovementUpdate ==
  \E r \in MovementInputs : Handle(r, "none") /\ Observed(r, "none")

ThresholdHydrationUpdate ==
  \E r \in {HydrationReq(3)} : Handle(r, "none") /\ Observed(r, "none")

\* the levels checkAndApplyEvolution is called with
CheckedLevels == {1, 4, 5, 9, 10, 11}

\* checkAndApplyEvolution(userId, previousLevel, newLevel) on the stored row,
\* with the arguments and the outcome of the call recorded
TracedCheckAndApplyEvolution ==
  \E previousLevel \in CheckedLevels, newLevel \in CheckedLevels :
     LET e == EvolutionCall(users, badges, previousLevel, newLevel) IN
       /\ users' = e.users
       /\ badges' = e.badges
       /\ call' = [fn |-> "checkAndApplyEvolution",
                   args |-> <<previousLevel, newLevel>>, out |-> e.outcome]
       /\ UNCHANGED accountVars
       /\ UNCHANGED <<now, daily_logs, habits_config, resp, rawToday,
                      paidCount, lastReq, inflight, base, nreq, rowsInserted,
                      judged>>

NextAtThreshold ==
  \/ ThresholdMovementUpdate
  \/ ThresholdHydrationUpdate
  \/ TracedCheckAndApplyEvolution
  \/ NextDay

SpecAtThreshold == InitAtThreshold /\ [][NextAtThreshold]_vars

----------------------------------------------------------------------------
(* Claims on the mascot stages and the badges *)

\* a category update has been committed in this step
Committed == nreq' = nreq + 1 /\ resp'.status = 200

\* C28: after every committed category update, a user whose BMI category has
\* a mascot mapping holds the mascot variant of the stage of the level they
\* now have (stage 0 for levels 1-4, stage 1 for 5-9, stage 2 from 10 on):
\* the level-up across level 5 or level 10 that the XP update reports is
\* taken up by the evolution check.
C28_UpdateAssignsStageMascot ==
  [][(Committed /\ users'.bmi_category \in BmiCategories)
       => users'.mascot_id
            = getMascotForLevel(users'.bmi_category, users'.level)]_vars

\* a movement routine has taken the overweight account to level 5, and the
\* account still has its starter mascot
C28_Witness ==
  /\ resp = [status |-> 200, xpAwarded |-> MOVEMENT_XP]
  /\ users.xp_total = ThresholdOf(EVOLUTION_LEVEL_5)
  /\ users.level = EVOLUTION_LEVEL_5
  /\ users.bmi_category = "overweight"
  /\ users.mascot_id = MASCOT_MAP["overweight"]
  /\ badges = {}

\* checkAndApplyEvolution has been called in this step
EvolutionChecked ==
  /\ call'.fn = "checkAndApplyEvolution"
  /\ nreq' = nreq
  /\ now' = now

\* C29: checkAndApplyEvolution(user, previousLevel, newLevel) with
\* previousLevel below 5 and newLevel at least 10 (4 to 11, say), for a user
\* whose BMI category has a mascot mapping, grants both the level-5 badge
\* evolution_5 and the level-10 badge champion and sets the mascot to the
\* final stage, the one of newLevel, never to the intermediate stage.
C29_JumpOverBothLevelsGrantsBoth ==
  [][(/\ EvolutionChecked
      /\ call'.args[1] < EVOLUTION_LEVEL_5
      /\ call'.args[2] >= EVOLUTION_LEVEL_10
      /\ users.bmi_category \in BmiCategories)
       => /\ {"evolution_5", "champion"} \subseteq badges'
          /\ users'.mascot_id
               = getMascotForLevel(users.bmi_category, call'.args[2])]_vars

\* the call from level 4 to level 11 for the overweight account has thrown:
\* no badge is held and the mascot is the starter
C29_Witness ==
  /\ call.fn = "checkAndApplyEvolution"
  /\ call.args = <<4, 11>>
  /\ call.out = "throws"
  /\ users.bmi_category = "overweight"
  /\ users.mascot_id = MASCOT_MAP["overweight"]
  /\ badges = {}

\* C30: checkAndApplyEvolution changes nothing (no mascot update, no badge)
\* and returns null without failing when newLevel <= previousLevel, when
\* neither level 5 nor level 10 is crossed, or when the user's BMI category
\* is missing or has no mascot mapping.
C30_NoOpCasesReturnNull ==
  [][(/\ EvolutionChecked
      /\ \/ call'.args[2] <= call'.args[1]
         \/ /\ ~(call'.args[1] < EVOLUTION_LEVEL_5
                  /\ call'.args[2] >= EVOLUTION_LEVEL_5)
            /\ ~(call'.args[1] < EVOLUTION_LEVEL_10
                  /\ call'.args[2] >= EVOLUTION_LEVEL_10)
         \/ users.bmi_category \notin BmiCategories)
       => /\ users' = users
          /\ badges' = badges
          /\ call'.out = "null"]_vars

\* the call from level 4 to level 5 for the account without BMI category has
\* thrown
C30_Witness ==
  /\ call.fn = "checkAndApplyEvolution"
  /\ call.args = <<4, 5>>
  /\ call.out = "throws"
  /\ users.bmi_category = ""
  /\ users.mascot_id = NULL
  /\ badges = {}

\* the badge types of the levels that a call with these arguments crosses
BadgesCrossed(args) ==
  (IF args[1] < EVOLUTION_LEVEL_5 /\ args[2] >= EVOLUTION_LEVEL_5
   THEN {"evolution_5"} ELSE {})
  \cup (IF args[1] < EVOLUTION_LEVEL_10 /\ args[2] >= EVOLUTION_LEVEL_10
        THEN {"champion"} ELSE {})

----------------------------------------------------------------------------
(* middleware/requireAuth.js, POST /api/auth/login and POST /api/auth/logout:
   the sessions of one user.  Instants are hours, as for now. *)

MaxSessions == 2
MaxSessionHours == 2
MaxStays == 2

THIRTY_DAYS == 30 * HoursPerDay

\* the DELETE of one row
WithoutSession(rows, token) == [t \in DOMAIN rows \ {token} |-> rows[t]]

\* the middleware that keeps the expired session and only answers 401
requireAuth_KeepsExpired(sess, token, t) ==
  IF token \notin DOMAIN sess.rows
  THEN [sessions |-> sess, out |-> "401"]
  ELSE IF sess.rows[token].expires_at < t
  THEN [sessions |-> sess, out |-> "401"]
  ELSE [sessions |->
          [sess EXCEPT !.rows[token] =
             [expires_at |-> t + THIRTY_DAYS, last_active_at |-> t]],
        out |-> "next"]

\* the middleware that does not slide the expiry of an accepted session
requireAuth_FixedExpiry(sess, token, t) ==
  IF token \notin DOMAIN sess.rows
  THEN [sessions |-> sess, out |-> "401"]
  ELSE IF sess.rows[token].expires_at < t
  THEN [sessions |-> [sess EXCEPT !.rows = WithoutSession(@, token)],
        out |-> "401"]
  ELSE [sessions |-> [sess EXCEPT !.rows[token].last_active_at = t],
        out |-> "next"]

\* requireAuth on a request that carries the token at the instant t: 401 for
\* a token without session; 401 and the DELETE of the session when
\* expires_at < t; otherwise the UPDATE of last_active_at and expires_at and
\* next().  The user of a session exists (ON DELETE CASCADE).
requireAuth(sess, token, t) ==
  IF token \notin DOMAIN sess.rows
  THEN [sessions |-> sess, out |-> "401"]
  ELSE IF sess.rows[token].expires_at < t
  THEN [sessions |-> [sess EXCEPT !.rows = WithoutSession(@, token)],
        out |-> "401"]
  ELSE [sessions |->
          [sess EXCEPT !.rows[token] =
             [expires_at |-> t + THIRTY_DAYS, last_active_at |-> t]],
        out |-> "next"]

\* the tokens a request may carry: 0 is a token that was never issued
Tokens == 0..MaxSessions

\* POST /api/auth/login with the right password of the verified user: a new
\* session that expires 30 days from now
Login ==
  /\ sessions.issued < MaxSessions
  /\ sessions' =
       [issued |-> sessions.issued + 1,
        rows |-> [t \in DOMAIN sessions.rows \cup {sessions.issued + 1} |->
                    IF t \in DOMAIN sessions.rows THEN sessions.rows[t]
                    ELSE [expires_at |-> now + THIRTY_DAYS,
                          last_active_at |-> now]]]
  /\ call' = [fn |-> "POST /api/auth/login", args |-> <<>>,
              out |-> sessions.issued + 1]
  /\ UNCHANGED <<now, users, daily_logs, habits_config, resp, rawToday,
                 paidCount, lastReq, inflight, base, nreq, badges,
                 rowsInserted, judged, teams, team_members>>

\* a request to a route behind requireAuth that writes nothing itself, such
\* as GET /api/onboarding/status
AuthenticatedRequest ==
  \E token \in Tokens :
     LET a == requireAuth(sessions, token, now) IN
       /\ sessions' = a.sessions
       /\ call' = [fn |-> "requireAuth", args |-> <<token>>, out |-> a.out]
       /\ UNCHANGED <<now, users, daily_logs, habits_config, resp, rawToday,
                      paidCount, lastReq, inflight, base, nreq, badges,
                      rowsInserted, judged, teams, team_members>>

\* POST /api/auth/logout: requireAuth, then the DELETE of the session
Logout ==
  \E token \in Tokens :
     LET a == requireAuth(sessions, token, now) IN
       /\ sessions' = IF a.out = "next"
                      THEN [a.sessions EXCEPT !.rows = WithoutSession(@, token)]
                      ELSE a.sessions
       /\ call' = [fn |-> "POST /api/auth/logout", args |-> <<token>>,
                   out |-> a.out]
       /\ UNCHANGED <<now, users, daily_logs, habits_config, resp, rawToday,
                      paidCount, lastReq, inflight, base, nreq, badges,
                      rowsInserted, judged, teams, team_members>>

\* the client stays away for an hour, or for 30 days: at most MaxSessionHours
\* single hours after the start and after each stay of 30 days, and at most
\* MaxStays stays of 30 days
SessionWaits == {1, THIRTY_DAYS}

Away ==
  \E h \in SessionWaits :
     /\ h = 1 => (now - StartNow) % THIRTY_DAYS < MaxSessionHours
     /\ now + h <= StartNow + MaxStays * THIRTY_DAYS + MaxSessionHours
     /\ now' = now + h
     /\ UNCHANGED accountVars
     /\ UNCHANGED <<users, daily_logs, habits_config, resp, rawToday,
                    paidCount, lastReq, inflight, base, nreq, badges,
                    rowsInserted, judged, call>>

NextSession == Login \/ AuthenticatedRequest \/ Logout \/ Away

SpecSession == InitOnboarded /\ [][NextSession]_vars

\* requireAuth has answered a request in this step
AuthChecked == now' = now /\ call'.fn = "requireAuth"

\* C40: requireAuth accepts a session token only while its expires_at has
\* not passed, and each accepted request moves expires_at to 30 days after
\* that request; a request that arrives after the expiry is answered 401 and
\* removes the session, so that every later request with the token is
\* answered 401 as well.
C40_SessionSlidesAndExpires ==
  [][/\ \A t \in 1..sessions.issued :
          t \notin DOMAIN sessions.rows => t \notin DOMAIN sessions'.rows
     /\ AuthChecked =>
       LET token == call'.args[1] IN
         /\ call'.out = "next"
              <=> /\ token \in DOMAIN sessions.rows
                  /\ sessions.rows[token].expires_at >= now
         /\ call'.out = "next"
              => /\ token \in DOMAIN sessions'.rows
                 /\ sessions'.rows[token].expires_at = now + THIRTY_DAYS
         /\ call'.out # "next"
              => /\ call'.out = "401"
                 /\ token \notin DOMAIN sessions'.rows]_vars

\* a request one hour after the expiry of the first session has been
\* answered 401 and the session is gone
C40_Witness ==
  /\ call.fn = "requireAuth"
  /\ call.args = <<1>>
  /\ call.out = "401"
  /\ now = StartNow + THIRTY_DAYS + 1
  /\ sessions.issued >= 1
  /\ 1 \notin DOMAIN sessions.rows

----------------------------------------------------------------------------
(* routes/onboarding.js, middleware/requireOnboardingComplete.js and the gate
   in front of GET /api/dashboard *)

TOTAL_ONBOARDING_STEPS == 4
MaxTeams == 2

\* the users row after registration and the verification of the email, with
\* the columns that the onboarding writes: NULL and "" stand for SQL NULL
RegisteredUser ==
  [xp_total |-> 0, level |-> 1,
   current_streak |-> 0, longest_streak |-> 0, streak_shields |-> 0,
   streak_last_evaluated_date |-> NULL,
   bmi_category |-> "", mascot_id |-> NULL,
   onboarding_step |-> 0, email_verified |-> 1,
   name |-> "", age |-> NULL, gender |-> "", timezone |-> "",
   height_cm |-> NULL, weight_kg |-> NULL, bmi |-> NULL,
   team_reminder_at |-> NULL]

\* Math.round(n / d) for positive n and d
RoundDiv(n, d) == (2 * n + d) \div (2 * d)

\* the BMI in tenths: Math.round(weight_kg / (heightM * heightM) * 10) / 10
BmiTenths(height_cm, weight_kg) ==
  RoundDiv(weight_kg * 100000, height_cm * height_cm)

\* the category of getBmiInfo, on the BMI in tenths
getBmiInfo(bmi) ==
  IF bmi < 185 THEN "underweight"
  ELSE IF bmi < 250 THEN "normal"
  ELSE IF bmi < 300 THEN "overweight"
  ELSE IF bmi < 350 THEN "obese_1"
  ELSE "obese_2"

\* the goals that step 3 stores: 5000 steps for the higher categories, and
\* Math.round((weightKg * 0.033) / 0.25) glasses
computeGoalPrefill(weightKg, bmiCategory) ==
  [daily_steps |-> IF bmiCategory \in {"overweight", "obese_1", "obese_2"}
                   THEN 5000 ELSE 10000,
   hydration_glasses |-> RoundDiv(weightKg * 132, 1000)]

\* SET onboarding_step = k, without the MAX
AdvanceStep_SetsStep(u, k) == [u EXCEPT !.onboarding_step = k]

\* SET onboarding_step = MAX(onboarding_step, k)
AdvanceStep(u, k) == [u EXCEPT !.onboarding_step = Max(@, k)]

\* requireAuth and requireEmailVerified in front of a route: "next" or the
\* status of the refusal
Entry(token) ==
  IF requireAuth(sessions, token, now).out # "next" THEN "401"
  ELSE IF users.email_verified = 0 THEN "403"
  ELSE "next"

\* the tables as a handler leaves them, and the status of its response
Answer(u, cfg, tms, members, status) ==
  [users |-> u, habits_config |-> cfg, teams |-> tms, team_members |-> members,
   status |-> status]

Refusal(status) == Answer(users, habits_config, teams, team_members, status)

\* what a request with the token gets: the answer of the handler when both
\* middlewares call next(), their refusal otherwise
Answered(token, answer) ==
  IF Entry(token) = "next" THEN answer ELSE Refusal(Entry(token))

\* a request to a route behind the two middlewares
Route(token, answer) ==
  LET a == Answered(token, answer)
  IN /\ sessions' = requireAuth(sessions, token, now).sessions
     /\ users' = a.users
     /\ habits_config' = a.habits_config
     /\ teams' = a.teams
     /\ team_members' = a.team_members
     /\ UNCHANGED <<now, daily_logs, resp, rawToday, paidCount, lastReq,
                    inflight, base, nreq, badges, rowsInserted, judged>>

\* the route, the body and the status of the request, on record
Logged(fn, args, token, answer) ==
  call' = [fn |-> fn, args |-> args, out |-> Answered(token, answer).status]

\* POST /api/onboarding/step1
Step1Answer(name, age, gender, timezone) ==
  IF name = "" \/ age \notin 13..120 \/ gender \notin {"male", "female", "other"}
  THEN Refusal("400")
  ELSE Answer(AdvanceStep([users EXCEPT !.name = name, !.age = age,
                                        !.gender = gender,
                                        !.timezone = IF timezone # ""
                                                     THEN timezone ELSE @],
                          1),
              habits_config, teams, team_members, "200")

\* POST /api/onboarding/step2
Step2Answer(height_cm, weight_kg) ==
  IF \/ height_cm \notin 50..300
     \/ weight_kg \notin 10..500
     \/ weight_kg * 10000 < 10 * height_cm * height_cm
     \/ weight_kg * 10000 > 60 * height_cm * height_cm
  THEN Refusal("400")
  ELSE LET bmi == BmiTenths(height_cm, weight_kg)
           category == getBmiInfo(bmi)
       IN Answer(AdvanceStep([users EXCEPT !.height_cm = height_cm,
                                           !.weight_kg = weight_kg,
                                           !.bmi = bmi,
                                           !.bmi_category = category,
                                           !.mascot_id = MASCOT_MAP[category]],
                             2),
                 habits_config, teams, team_members, "200")

\* POST /api/onboarding/step3
Step3Answer(movement_preference) ==
  IF movement_preference \notin {"chair_exercises", "walking", "jumping_jacks"}
  THEN Refusal("400")
  ELSE IF users.weight_kg = NULL \/ users.bmi_category = ""
  THEN Refusal("400")
  ELSE Answer(AdvanceStep(users, 3),
              <<computeGoalPrefill(users.weight_kg, users.bmi_category)>>,
              teams, team_members, "200")

\* POST /api/onboarding/step4: skip, create or join.  The user's own teams
\* are numbered from 1; team 0 is the team of another user, and the invite
\* code of a team is its number.
Step4Answer(action, inviteCode) ==
  IF action = "skip"
  THEN Answer(AdvanceStep([users EXCEPT !.team_reminder_at = now + 48], 4),
              habits_config, teams, team_members, "200")
  ELSE IF action = "create"
  THEN LET teamId == Cardinality(teams) IN
         Answer(AdvanceStep(users, 4), habits_config, teams \cup {teamId},
                team_members \cup {[team_id |-> teamId, role |-> "owner"]},
                "200")
  ELSE IF action = "join"
  THEN IF inviteCode \notin teams THEN Refusal("400")
       ELSE Answer(AdvanceStep(users, 4), habits_config, teams,
                   IF \E m \in team_members : m.team_id = inviteCode
                   THEN team_members
                   ELSE team_members
                          \cup {[team_id |-> inviteCode, role |-> "member"]},
                   "200")
  ELSE Refusal("400")

\* requireOnboardingComplete and GET /api/dashboard behind it
DashboardAnswer ==
  IF users.onboarding_step < TOTAL_ONBOARDING_STEPS THEN Refusal("403")
  ELSE Answer(evaluateStreakIfNeeded(users, daily_logs, habits_config, today),
              habits_config, teams, team_members, "200")

\* the tokens of the requests: 1 is the token of the login, 0 was never
\* issued
OnboardingTokens == {0, 1}

PostStep1 ==
  \E token \in OnboardingTokens, age \in {12, 30}, timezone \in {"", "UTC"} :
     /\ Route(token, Step1Answer("Ann", age, "other", timezone))
     /\ Logged("POST /api/onboarding/step1", <<age, timezone>>, token,
            Step1Answer("Ann", age, "other", timezone))

PostStep2 ==
  \E token \in OnboardingTokens,
     body \in {<<170, 80>>, <<170, 60>>, <<170, 20>>} :
     /\ Route(token, Step2Answer(body[1], body[2]))
     /\ Logged("POST /api/onboarding/step2", body, token,
            Step2Answer(body[1], body[2]))

PostStep3 ==
  \E token \in OnboardingTokens, movement_preference \in {"walking", "running"} :
     /\ Route(token, Step3Answer(movement_preference))
     /\ Logged("POST /api/onboarding/step3", <<movement_preference>>, token,
            Step3Answer(movement_preference))

PostStep4 ==
  \E token \in OnboardingTokens, action \in {"skip", "create", "join"},
     inviteCode \in {0, MaxTeams + 1} :
     /\ action = "create" => Cardinality(teams) <= MaxTeams /\ inviteCode = 0
     /\ action = "skip" => inviteCode = 0
     /\ Route(token, Step4Answer(action, inviteCode))
     /\ Logged("POST /api/onboarding/step4", <<action, inviteCode>>, token,
            Step4Answer(action, inviteCode))

GetDashboard ==
  \E token \in OnboardingTokens :
     /\ Route(token, DashboardAnswer)
     /\ Logged("GET /api/dashboard", <<>>, token,
            DashboardAnswer)

\* a verified user right after the login, before the first onboarding step;
\* another user has a team
InitOnboarding ==
  /\ now = StartNow
  /\ users = RegisteredUser
  /\ habits_config = <<>>
  /\ badges = {}
  /\ daily_logs = <<>>
  /\ resp = NoResp
  /\ rawToday = [d \in Dates |-> 0]
  /\ paidCount = [d \in Dates |-> [f \in OneShotFlags |-> 0]]
  /\ lastReq = [req |-> NoReq, date |-> 0, times |-> 0]
  /\ inflight = [p \in Procs |-> Idle]
  /\ base = <<>>
  /\ nreq = 0
  /\ rowsInserted = [d \in Dates |-> 0]
  /\ judged = [d \in Dates |-> 0]
  /\ call = NoCall
  /\ sessions = [issued |-> 1,
                 rows |-> <<[expires_at |-> now + THIRTY_DAYS,
                             last_active_at |-> now]>>]
  /\ teams = {0}
  /\ team_members = {}

NextOnboarding ==
  \/ PostStep1
  \/ PostStep2
  \/ PostStep3
  \/ PostStep4
  \/ GetDashboard

SpecOnboarding == InitOnboarding /\ [][NextOnboarding]_vars

----------------------------------------------------------------------------
(* Claims on the onboarding and on the sessions *)

\* C32: onboarding is a hard gate: requireOnboardingComplete lets a request
\* through to the dashboard only for a user who has completed all four
\* onboarding steps, the BMI entry of step 2 (height, weight, BMI category
\* and mascot are set) and the goal confirmation of step 3 included.
C32_DashboardOnlyAfterAllSteps ==
  [][(call'.fn = "GET /api/dashboard" /\ call'.out = "200")
       => /\ users.onboarding_step = TOTAL_ONBOARDING_STEPS
          /\ users.name # ""
          /\ users.height_cm # NULL
          /\ users.weight_kg # NULL
          /\ users.bmi_category \in BmiCategories
          /\ users.mascot_id # NULL
          /\ habits_config # <<>>]_vars

\* the dashboard has answered 200 to a user who has no name, no BMI
\* category, no mascot and no goals
C32_Witness ==
  /\ call.fn = "GET /api/dashboard"
  /\ call.out = "200"
  /\ users.onboarding_step = TOTAL_ONBOARDING_STEPS
  /\ users.name = ""
  /\ users.bmi_category = ""
  /\ users.mascot_id = NULL
  /\ habits_config = <<>>

\* one of the four onboarding steps has been submitted in this step
StepSubmitted(k) ==
  call'.fn = <<"POST /api/onboarding/step1", "POST /api/onboarding/step2",
               "POST /api/onboarding/step3", "POST /api/onboarding/step4">>[k]

\* C39: onboarding_step never decreases: over any sequence of onboarding
\* submissions, submitting a step (1 to 4) again after a later step was
\* completed leaves the stored onboarding_step at its previous, higher value.
C39_OnboardingStepNeverDecreases ==
  [][/\ users'.onboarding_step >= users.onboarding_step
     /\ \A k \in 1..TOTAL_ONBOARDING_STEPS :
          (StepSubmitted(k) /\ users.onboarding_step > k)
            => users'.onboarding_step = users.onboarding_step]_vars

\* step 1 has been submitted again, with a time zone this time, after the
\* onboarding was completed: the stored step is still 4
C39_Witness ==
  /\ call.fn = "POST /api/onboarding/step1"
  /\ call.out = "200"
  /\ users.timezone = "UTC"
  /\ users.onboarding_step = TOTAL_ONBOARDING_STEPS
  /\ habits_config # <<>>

----------------------------------------------------------------------------
(* Claims on the whole of the ledger and of the streak state *)

\* the instants of the step bonuses on record: the latest of every date
BonusInstants(logs) ==
  {logs[d].steps_last_bonus_at : d \in DOMAIN logs} \ {NULL}

\* C33: the cooldown of the step bonus is measured from the user's last
\* bonus whatever the calendar date: two +5 bonuses paid to the same user
\* are never less than 2 hours apart, also when the user's date changes
\* between them.
C33_BonusesTwoHoursApartAcrossDates ==
  \A t1, t2 \in BonusInstants(daily_logs) :
     t1 < t2 => t2 - t1 >= TWO_HOURS

\* a bonus in the last hour of day 0 and another in the first hour of day 1,
\* each paid with its 5 XP
C33_Witness ==
  /\ HasRow(daily_logs, 0) /\ HasRow(daily_logs, 1)
  /\ daily_logs[0].steps_last_bonus_at = HoursPerDay - 1
  /\ daily_logs[1].steps_last_bonus_at = HoursPerDay
  /\ daily_logs[0].xp_earned = STEP_BONUS_XP
  /\ daily_logs[1].xp_earned = STEP_BONUS_XP
  /\ users.xp_total >= 2 * STEP_BONUS_XP

\* SELECT COALESCE(SUM(xp_earned), 0) FROM daily_logs, the xpFromLogs of
\* GET /me/stats
xp_from_logs(logs) ==
  SumOver([d \in DOMAIN logs |-> logs[d].xp_earned], DOMAIN logs)

\* C34: xp_total equals the sum of xp_earned over all ledger rows of the
\* user, in every state that serial category updates reach from a new
\* account (xp_total 0, no ledger row; the new account is the one that has
\* no habits_config row).
C34_XpTotalIsSumOfLedger ==
  habits_config = <<>> => users.xp_total = xp_from_logs(daily_logs)

\* the new account has earned XP on two dates
C34_Witness ==
  /\ habits_config = <<>>
  /\ \E d1, d2 \in DOMAIN daily_logs :
       /\ d1 < d2
       /\ daily_logs[d1].xp_earned > 0
       /\ daily_logs[d2].xp_earned > 0
       /\ users.xp_total = daily_logs[d1].xp_earned + daily_logs[d2].xp_earned

\* category updates alone, on the accounts that stand one movement routine
\* below level 5 and below level 10
NextLevelUp ==
  \/ ThresholdMovementUpdate
  \/ ThresholdHydrationUpdate
  \/ NextDay

SpecLevelUp == InitAtThreshold /\ [][NextLevelUp]_vars

\* C35: a committed category update adds at most DAILY_XP_CAP XP and
\* consecutive level thresholds are at least 500 apart, so the update leaves
\* the level where it was or raises it by exactly one; it never crosses two
\* levels (and so never level 5 and level 10) at once.
C35_UpdateRaisesLevelByAtMostOne ==
  [][Committed
       => /\ users'.xp_total - users.xp_total \in 0..DAILY_XP_CAP
          /\ users'.level - users.level \in {0, 1}
          /\ \A l \in 1..(MaxLevel - 1) :
               WideLeq(WideAdd(LEVEL_THRESHOLDS[l], Wide(500)),
                       LEVEL_THRESHOLDS[l + 1])]_vars

\* a movement routine has taken the account of normal BMI from level 9 to
\* level 10
C35_Witness ==
  /\ resp = [status |-> 200, xpAwarded |-> MOVEMENT_XP]
  /\ users.bmi_category = "normal"
  /\ users.xp_total = ThresholdOf(EVOLUTION_LEVEL_10)
  /\ users.level = EVOLUTION_LEVEL_10

-----------------------------------------------------------------------------
(* The streak of an account followed from its first day over the days of   *)
(* a first shield: days on which four categories are completed, days on    *)
(* which nothing is logged, and evaluations on some of the days            *)

\* the last date of the runs that follow an account from its first day
MaxLongDay == 10

\* the first day on which the user comes back to the dashboard
FirstReturnDay == SHIELD_STREAK_INTERVAL + 1

\* the user completes four categories on a date that has no row yet
LiveDay ==
  LET day == ServedOn(users, daily_logs, habits_config, today,
                      CompletingRequests, 4) IN
  /\ ~HasRow(daily_logs, today)
  /\ users' = day.users
  /\ daily_logs' = day.daily_logs
  /\ UNCHANGED accountVars
  /\ UNCHANGED <<now, habits_config, resp, rawToday, paidCount, lastReq,
                 inflight, base, nreq, badges, rowsInserted, judged, call>>

\* the dashboard opened on the first day, and again on the days from the
\* eighth on
ReturnToDashboard ==
  /\ today = 0 \/ today >= FirstReturnDay
  /\ EvaluateStreak

LongNextDay ==
  /\ today < MaxLongDay
  /\ now' = now + HoursPerDay
  /\ UNCHANGED accountVars
  /\ UNCHANGED <<users, daily_logs, habits_config, resp, rawToday, paidCount,
                 lastReq, inflight, base, nreq, badges, rowsInserted, judged,
                 call>>

NextFromFirstDay ==
  \/ LiveDay
  \/ ReturnToDashboard
  \/ LongNextDay

SpecFromFirstDay == InitOnboarded /\ [][NextFromFirstDay]_vars

\* C36: in every streak state reached from current_streak = 0 and
\* streak_shields = 0, a banked shield comes with a streak of at least 7:
\* at most one shield is banked, and streak_shields = 1 implies
\* current_streak >= 7, so a streak is never reset while a shield is banked.
C36_ShieldImpliesStreakOfSeven ==
  /\ users.streak_shields \in 0..MAX_SHIELDS
  /\ users.streak_shields = 1 => users.current_streak >= SHIELD_STREAK_INTERVAL
  /\ users.current_streak = 0 => users.streak_shields = 0

\* seven completed days have banked the shield, and the day after them was
\* missed: the evaluation has spent the shield and kept the streak of 7
C36_Witness ==
  /\ users.current_streak = SHIELD_STREAK_INTERVAL
  /\ users.streak_shields = 0
  /\ users.streak_last_evaluated_date = 9
  /\ \A d \in 1..7 : HasRow(daily_logs, d)
  /\ ~HasRow(daily_logs, 8)

\* an evaluation has been called in this step of a run that serves updates
\* as well
EvaluatedBetweenUpdates == Evaluated /\ nreq' = nreq

\* C37: streak evaluation and XP accounting write disjoint state: a call of
\* evaluateStreakIfNeeded leaves xp_total, level and every ledger row as they
\* were, and a category update leaves current_streak, longest_streak,
\* streak_shields and the streak watermark as they were.
C37_StreakAndXpWritesDisjoint ==
  [][/\ EvaluatedBetweenUpdates
          => /\ users'.xp_total = users.xp_total
             /\ users'.level = users.level
             /\ daily_logs' = daily_logs
     /\ nreq' = nreq + 1 => StoredStreak(users') = StoredStreak(users)]_vars

\* an evaluation has stored a streak of one day for an account that has
\* earned XP through updates since its start at 450 XP
C37_Witness ==
  /\ call.fn = "evaluateStreakIfNeeded"
  /\ users.current_streak = 1
  /\ users.streak_last_evaluated_date = 2
  /\ users.xp_total > 450
  /\ nreq > 0

-----------------------------------------------------------------------------
(* Two server processes on the same database file, each serving one       *)
(* request that calls evaluateStreakIfNeeded on the same date.  A call is *)
(* made of its SELECT, the passes of its loop and its UPDATE; the         *)
(* statements of the two calls interleave.  inflight[p].plan holds the    *)
(* locals of the call of process p.                                       *)

\* a call that has returned, with the locals it ended with
Returned(locals) == [pc |-> "done", req |-> NoReq, plan |-> locals]

\* an UPDATE that adds what the loop has gained to the stored streak
RowAfterUpdate_AddsGain(u, l) ==
  [u EXCEPT !.current_streak = @ + (l.st.currentStreak - l.user.current_streak),
            !.longest_streak = Max(@, l.st.longestStreak),
            !.streak_shields = l.st.shields,
            !.streak_last_evaluated_date = l.today]

\* lines 133-136: the UPDATE after the loop, on the stored row u
RowAfterUpdate(u, l) ==
  [u EXCEPT !.current_streak = l.st.currentStreak,
            !.longest_streak = l.st.longestStreak,
            !.streak_shields = l.st.shields,
            !.streak_last_evaluated_date = l.today]

\* lines 84-110 in process p: today, the SELECT, the first-call UPDATE, the
\* early return, and the locals of the loop
ConcStreakCall(p) ==
  LET lastEval == users.streak_last_evaluated_date IN
  /\ inflight[p].pc = "idle"
  /\ base' = IF base = <<>>
             THEN <<[users |-> users, daily_logs |-> daily_logs]>> ELSE base
  /\ IF lastEval = NULL
     THEN /\ users' = [users EXCEPT !.streak_last_evaluated_date = today]
          /\ CallEnds(lastEval, today, {})
          /\ inflight' = [inflight EXCEPT ![p] = Returned(<<>>)]
     ELSE IF lastEval >= today
     THEN /\ CallEnds(lastEval, today, {})
          /\ inflight' = [inflight EXCEPT ![p] = Returned(<<>>)]
          /\ UNCHANGED users
     ELSE /\ inflight' = [inflight EXCEPT ![p] =
               [pc |-> "loop", req |-> NoReq,
                plan |-> [today |-> today, lastEval |-> lastEval,
                          yesterday |-> addDays(today, -1),
                          evalDate |-> addDays(lastEval, 1),
                          st |-> [currentStreak |-> users.current_streak,
                                  longestStreak |-> users.longest_streak,
                                  shields |-> users.streak_shields],
                          user |-> users]]]
          /\ UNCHANGED <<users, call, judged>>
  /\ UNCHANGED accountVars
  /\ UNCHANGED <<now, daily_logs, habits_config, resp, rawToday, paidCount,
                 lastReq, nreq, badges, rowsInserted>>

\* lines 114-132 in process p: one pass of the while loop
ConcStreakPass(p) ==
  LET l == inflight[p].plan IN
  /\ inflight[p].pc = "loop"
  /\ l.evalDate <= l.yesterday
  /\ inflight' = [inflight EXCEPT
                    ![p].plan.st = StreakDay(l.st,
                                     countCompletedCategories(daily_logs,
                                       habits_config, l.evalDate)),
                    ![p].plan.evalDate = addDays(l.evalDate, 1)]
  /\ UNCHANGED accountVars
  /\ UNCHANGED <<now, users, daily_logs, habits_config, resp, rawToday,
                 paidCount, lastReq, base, nreq, badges, rowsInserted, judged,
                 call>>

\* lines 133-137 in process p: the UPDATE after the loop
ConcStreakUpdate(p) ==
  LET l == inflight[p].plan IN
  /\ inflight[p].pc = "loop"
  /\ l.evalDate > l.yesterday
  /\ users' = RowAfterUpdate(users, l)
  /\ inflight' = [inflight EXCEPT ![p] = Returned(l)]
  /\ CallEnds(l.lastEval, l.today, (l.lastEval + 1)..l.yesterday)
  /\ UNCHANGED accountVars
  /\ UNCHANGED <<now, daily_logs, habits_config, resp, rawToday, paidCount,
                 lastReq, base, nreq, badges, rowsInserted>>

NextTwoCalls ==
  \/ \E p \in Procs : ConcStreakCall(p)
  \/ \E p \in Procs : ConcStreakPass(p)
  \/ \E p \in Procs : ConcStreakUpdate(p)

SpecTwoCalls == InitInUse /\ [][NextTwoCalls]_vars

\* the call of process p has run its loop: its SELECT found days to judge
Looped(p) == inflight[p].pc = "done" /\ DOMAIN inflight[p].plan # {}

\* C38: two evaluations for the same user and the same today whose
\* statements interleave leave the stored streak state that one evaluation
\* leaves: no day is counted twice and no shield is granted or spent twice.
C38_TwoCallsLeaveStateOfOne ==
  (\A p \in Procs : inflight[p].pc = "done") =>
     StoredStreak(users)
       = StoredStreak(evaluateStreakIfNeeded(base[1].users, daily_logs,
                                             habits_config, today))

\* both calls have read the row before either has written it, both have
\* judged the days, and the shield the row held has been spent
C38_Witness ==
  /\ \A p \in Procs : Looped(p)
  /\ base[1].users.streak_shields = 1
  /\ users.streak_shields = 0
====
